---- MODULE Spec2Model ----
(***************************************************************************)
(* Task lifecycle of the Claude Code Web API: the OpenAPI server           *)
(* (ClaudeCodeWebAPI: POST/GET/DELETE /tasks over the runningTasks map)    *)
(* and the executor behind it (ClaudeExecutor: executeTask, executeClaude, *)
(* processOutput, getTaskResult).                                          *)
(*                                                                         *)
(* The specifications share the actions: Spec (the server, several tasks), *)
(* SpecExec (one task, every output, the clock), SpecContext (one task,    *)
(* every shape of request; SpecContextFair adds the fairness of the timer  *)
(* and of the file write), SpecHttp (the server behind its authentication  *)
(* and rate-limit middleware), SpecRateLimit (the middleware over several  *)
(* windows, for several configured limits), SpecServers (the OpenAPI       *)
(* server and the plain Hono server), SpecDev (the development server      *)
(* with its tasks map) and SpecGit (one call of setupGitAndPush).          *)
(*                                                                         *)
(* Node runs one callback at a time, so every action below is one          *)
(* callback: an HTTP handler up to its first await, or the continuation    *)
(* that runs when an awaited file operation, subprocess event or timer     *)
(* completes.  The promise continuations that follow a settlement          *)
(* (the finally callback, the GET handlers awaiting the promise) are        *)
(* microtasks and run before any other callback, so they belong to the     *)
(* settling action.                                                        *)
(***************************************************************************)
EXTENDS Integers, Sequences, FiniteSets, TLC

(* ---------------- bounds of the model ---------------- *)

MaxTasks == 2        \* task ids that nanoid() hands out during a run
MaxClock == 1        \* Date.now() ranges over 0..MaxClock
MaxLines == 2        \* lines of captured standard output
MaxSurplus == 1      \* a list of deltas has up to MaxSurplus paths, or a full batch and
                     \* up to MaxSurplus more

(* ---------------- program constants ---------------- *)

maxConcurrentTasks == 1     \* ServerConfig.maxConcurrentTasks
rateLimitPerMinute == 1     \* ServerConfig.rateLimitPerMinute
windowMs == 60000           \* the window of the rate limiter
enableAuth == TRUE          \* ServerConfig.enableAuth
apiKey == "test-api-key"    \* ServerConfig.apiKey
DefaultTimeoutSeconds == 300
BATCH_SIZE == 50            \* setupGitAndPush: files per pushChanges call

TaskIds == 1..MaxTasks

\* the X-Forwarded-For values of the callers; "unknown" stands for no header
Clients == {"unknown", "10.0.0.7"}
(* ---------------- JSON values ---------------- *)

Undefined == [j |-> "undefined"]
Str(s) == [j |-> "string", v |-> s]
Num(n) == [j |-> "number", v |-> n]
Arr(a) == [j |-> "array", v |-> a]
Date(n) == [j |-> "date", v |-> n]
Null == [j |-> "null"]

(* The lines a subprocess can print.  Each is one line of text; JSONparse  *)
(* is JSON.parse on this universe.                                         *)
LineNoise == "Thinking..."
LineError == "Error: rate limited"
LineAssistant == "{type:assistant}"
LineNull == "null"
LineResultA == "{type:result,result:A,duration_ms:1,num_turns:1,total_cost_usd:2,permission_denials:[]}"
LineResultB == "{type:result,result:B,duration_ms:2,num_turns:0,total_cost_usd:1,permission_denials:[Bash]}"

Lines == {LineNoise, LineError, LineAssistant, LineNull, LineResultA, LineResultB}

ParseFailure == [j |-> "SyntaxError"]

JSONparse(line) ==
  CASE line = LineAssistant -> [j |-> "object", type |-> "assistant"]
    [] line = LineNull -> Null
    [] line = LineResultA -> [j |-> "object", type |-> "result", result |-> Str("A"),
                              duration_ms |-> 1, num_turns |-> 1, total_cost_usd |-> 2,
                              permission_denials |-> <<>>]
    [] line = LineResultB -> [j |-> "object", type |-> "result", result |-> Str("B"),
                              duration_ms |-> 2, num_turns |-> 0, total_cost_usd |-> 1,
                              permission_denials |-> <<"Bash">>]
    [] OTHER -> ParseFailure

\* output.includes("Error:")
IncludesErrorMarker(output) == \E i \in 1..Len(output) : output[i] = LineError

RECURSIVE Join(_)
\* the text of an output: its lines joined by newlines
Join(output) ==
  IF output = <<>> THEN ""
  ELSE IF Len(output) = 1 THEN output[1]
  ELSE output[1] \o "\n" \o Join(Tail(output))

Outputs == UNION {[1..n -> Lines] : n \in 0..MaxLines}

(* ---------------- requests and templates ---------------- *)

\* Task Requests as they leave schema validation (timeoutSeconds defaulted).
RequestWithPrompt ==
  [taskType |-> Str("custom"), prompt |-> Str("Calculate 5 + 5"),
   timeoutSeconds |-> Num(DefaultTimeoutSeconds),
   metadata |-> [j |-> "object", source |-> "ci"]]

RequestWithoutPrompt ==
  [taskType |-> Str("custom"), prompt |-> Undefined,
   timeoutSeconds |-> Num(DefaultTimeoutSeconds),
   metadata |-> Undefined]

\* a request whose caller chose its own timeout
RequestShortTimeout ==
  [taskType |-> Str("custom"), prompt |-> Str("Calculate 5 + 5"),
   timeoutSeconds |-> Num(1),
   metadata |-> Undefined]

Requests == {RequestWithPrompt, RequestWithoutPrompt}
ExecRequests == Requests \cup {RequestShortTimeout}

\* TASK_TEMPLATES[taskType].defaultPrompt for the categories in Requests
TemplateDefaultPrompt(taskType) ==
  CASE taskType = "custom" -> ""
    [] taskType = "code-review" -> "Review the code"
    [] OTHER -> ""

\* an emptiness test without the trim: promptContent.length === 0
IsBlankNoTrim(s) == s = ""

\* promptContent.trim().length === 0 on the prompt texts of the model
IsBlank(s) == s \in {"", " ", "\n"}

\* JSON.stringify drops the properties whose value is undefined
JSONstringify(obj) ==
  [f \in {k \in DOMAIN obj : obj[k] # Undefined} |-> obj[f]]

\* property read on a parsed object: undefined when the property is absent
Prop(obj, f) == IF f \in DOMAIN obj THEN obj[f] ELSE Undefined

(* ---------------- ClaudeExecutor: pure parts ---------------- *)

Thrown(msg) == [ok |-> FALSE, error |-> msg]
Returned(v) == [ok |-> TRUE, value |-> v]

\* the files a promptFile can name: existsSync and readFile on them
PromptFilePaths == {"missing.txt", "empty.txt", "blank.txt", "task.txt"}
existsSync(path) == path # "missing.txt"
readFile(path) ==
  CASE path = "empty.txt" -> ""
    [] path = "blank.txt" -> " "
    [] path = "task.txt" -> "Fix the failing test"

\* !x is false on an optional string or number property
Truthy(x) ==
  /\ x # Undefined
  /\ x.j = "string" => x.v # ""
  /\ x.j = "number" => x.v # 0

\* preparePrompt up to the write of the prompt file
preparePrompt(request) ==
  LET prompt == Prop(request, "prompt")
      promptFile == Prop(request, "promptFile")
      given == IF Truthy(prompt) THEN prompt.v ELSE ""
      templated == IF given = "" /\ ~Truthy(promptFile)
                   THEN TemplateDefaultPrompt(request.taskType.v)
                   ELSE given
  IN IF Truthy(promptFile) /\ ~existsSync(promptFile.v)
     THEN Thrown("Prompt file '" \o promptFile.v \o "' does not exist")
     ELSE IF Truthy(promptFile) /\ readFile(promptFile.v) = ""
     THEN Thrown("Prompt file is empty")
     ELSE LET promptContent == IF Truthy(promptFile) THEN readFile(promptFile.v)
                               ELSE templated
          IN IF promptContent = "" \/ IsBlank(promptContent)
             THEN Thrown("Prompt is empty. Please provide a non-empty prompt.")
             ELSE Returned(promptContent)

\* TASK_TEMPLATES[taskType].allowedTools and .recommendedMaxTurns
TemplateAllowedTools(taskType) ==
  CASE taskType = "custom" -> "Read,Grep,Edit,Write,Bash,WebSearch"
    [] taskType = "code-review" -> "Read,Grep,Edit,Write,Bash"
    [] OTHER -> "Edit,Read,Bash,Write,Grep,WebSearch"
TemplateMaxTurns(taskType) ==
  CASE taskType = "custom" -> 20
    [] taskType = "code-review" -> 15
    [] OTHER -> 30

\* createExecutionContext: allowedTools and maxTurns of the request object are
\* filled in from the template when the caller left them out
ResolveDefaults(request) ==
  [f \in DOMAIN request \cup {"allowedTools", "maxTurns"} |->
     CASE f = "allowedTools" /\ ~Truthy(Prop(request, f)) ->
            Str(TemplateAllowedTools(request.taskType.v))
       [] f = "maxTurns" /\ ~Truthy(Prop(request, f)) ->
            Num(TemplateMaxTurns(request.taskType.v))
       [] OTHER -> request[f]]

\* the loop of processOutput and getTaskResult: the lines that decode
ParseMessages(output) ==
  LET decodes(line) == JSONparse(line) # ParseFailure
      kept == SelectSeq(output, decodes)
  IN [i \in 1..Len(kept) |-> JSONparse(kept[i])]

\* reading m.type throws a TypeError when m is null
TypeError == [j |-> "TypeError"]
TypeErrorMessage == "Cannot read properties of null (reading 'type')"

\* messages.findLast((m) => m.type === "result"): the messages are visited
\* from the last one down, up to the first one whose type is result; a null
\* message visited on the way throws
FindLastResult(messages) ==
  LET stops == {i \in 1..Len(messages) :
                  messages[i] = Null \/ Prop(messages[i], "type") = "result"}
  IN IF stops = {} THEN Undefined
     ELSE LET last == CHOOSE i \in stops : \A k \in stops : k <= i
          IN IF messages[last] = Null THEN TypeError ELSE messages[last]

\* processOutput that settles for the last decoded message when none is a result
processOutputAnyMessage(output) ==
  LET messages == ParseMessages(output)
      result == FindLastResult(messages)
  IN IF result = TypeError THEN Thrown(TypeErrorMessage)
     ELSE IF result = Undefined
     THEN IF messages # <<>> THEN Returned(messages[Len(messages)])
          ELSE IF IncludesErrorMarker(output)
          THEN Thrown("Claude execution error: " \o Join(output))
          ELSE Thrown("No result message found in Claude output")
     ELSE Returned(result)

\* processOutput after the raw output has been saved
processOutput(output) ==
  LET result == FindLastResult(ParseMessages(output))
  IN IF result = TypeError THEN Thrown(TypeErrorMessage)
     ELSE IF result = Undefined
     THEN IF IncludesErrorMarker(output)
          THEN Thrown("Claude execution error: " \o Join(output))
          ELSE Thrown("No result message found in Claude output")
     ELSE Returned(result)

\* x || 0 on a number property
OrZero(obj, f) == IF f \in DOMAIN obj THEN obj[f] ELSE 0

TaskResponse(taskId, status, result, error, executionMetrics, createdAt, startedAt, completedAt, metadata) ==
  [taskId |-> taskId, status |-> status, result |-> result, error |-> error,
   executionMetrics |-> executionMetrics, createdAt |-> createdAt,
   startedAt |-> startedAt, completedAt |-> completedAt, metadata |-> metadata]

\* executeTask: the value returned by the try block
ExecuteTaskCompleted(taskId, request, start, completion, result) ==
  TaskResponse(taskId, "completed", result, Undefined,
    [durationMs |-> completion - start,
     numTurns |-> OrZero(result, "num_turns"),
     totalCostUsd |-> OrZero(result, "total_cost_usd"),
     permissionDenials |-> IF "permission_denials" \in DOMAIN result
                           THEN Arr(result.permission_denials) ELSE Num(0)],
    Date(start), Date(start), Date(completion), request.metadata)

\* executeTask: the value returned by the catch block
ExecuteTaskFailed(taskId, request, start, completion, message) ==
  TaskResponse(taskId, "failed", Undefined, Str(message), Undefined,
    Date(start), Date(start), Date(completion), request.metadata)


(* ---------------- files of a task directory ---------------- *)

NoFile == [j |-> "ENOENT"]
File(content, time) == [j |-> "file", content |-> content, birthtime |-> time, mtime |-> time]

\* getTaskResult on the task directory as it is on disk at time clock
getTaskResult(taskId, dirExists, requestJson, outputJson, clock) ==
  IF ~dirExists THEN Undefined
  ELSE
    LET metadata == IF requestJson = NoFile THEN Undefined
                    ELSE Prop(requestJson.content, "metadata")
    IN IF outputJson = NoFile
       THEN TaskResponse(taskId, "failed", Undefined, Str("Task output not found"),
                         Undefined, Date(clock), Undefined, Undefined, metadata)
       ELSE
         LET result == FindLastResult(ParseMessages(outputJson.content))
         IN IF result = TypeError
            THEN \* thrown inside the try block: the catch block answers
                 TaskResponse(taskId, "failed", Undefined, Str("Task output not found"),
                              Undefined, Date(clock), Undefined, Undefined, metadata)
            ELSE IF result # Undefined
            THEN TaskResponse(taskId, "completed", Prop(result, "result"), Undefined,
                   [durationMs |-> OrZero(result, "duration_ms"),
                    numTurns |-> OrZero(result, "num_turns"),
                    totalCostUsd |-> OrZero(result, "total_cost_usd"),
                    permissionDenials |->
                      Num(IF "permission_denials" \in DOMAIN result
                          THEN Len(result.permission_denials) ELSE 0)],
                   Date(outputJson.birthtime), Date(outputJson.birthtime),
                   Date(outputJson.mtime), metadata)
            ELSE TaskResponse(taskId, "failed", Undefined,
                   Str("Task completed but no result found in output"), Undefined,
                   Date(outputJson.birthtime), Undefined, Undefined, metadata)

(* ---------------- state ---------------- *)

VARIABLES
  now,           \* Date.now()
  nextId,        \* number of task ids nanoid() has handed out
  runningTasks,  \* ClaudeCodeWebAPI.runningTasks: the ids that are keys of the map
  pc,            \* per task: where its executeTask call stands
  request,       \* per task: the TaskRequest object passed to executeTask
  startTime,     \* per task: executeTask's startTime
  stdout,        \* per task: the output buffer handed to processOutput
  proc,          \* per task: the agent subprocess
  timer,         \* per task: the timeout timer of executeClaude
  taskDir,       \* per task: the task directory exists
  requestJson,   \* per task: request.json
  promptTxt,     \* per task: prompt.txt
  outputJson,    \* per task: output.json
  repoDir,       \* per task: the branch downloaded into the repo directory
  settled,       \* per task: the value the task's promise resolved with
  waiting,       \* per task: a GET handler is awaiting the task's promise
  lastResponse,  \* the HTTP response sent most recently
  config,        \* ClaudeCodeWebAPI.config: the limit of the rate limiter
  server,        \* which server runs: the OpenAPI server, the plain Hono server or the
                 \* development server
  tasks,         \* development server: the tasks map, a TaskResponse per id
  rateLimitStore, \* ClaudeCodeWebAPI.rateLimitStore: per client, count and resetTime
  git            \* a call of setupGitAndPush and what the GitHub service got from it

exec == <<pc, request, startTime, stdout, proc, timer>>
disk == <<taskDir, requestJson, promptTxt, outputJson, repoDir>>
vars == <<now, nextId, runningTasks, pc, request, startTime, stdout, proc, timer,
          taskDir, requestJson, promptTxt, outputJson, repoDir, settled, waiting, lastResponse, config,
          server, tasks, rateLimitStore, git>>

\* setupGitAndPush as a call stands: its options, the deltas it read, the
\* loop index, and the calls the GitHub service has accepted from it
GitCall(at, username, providedBranch, targetBranch, deltas, notFiles, deltaFiles, i, github) ==
  [pc |-> at, username |-> username, providedBranch |-> providedBranch,
   targetBranch |-> targetBranch, deltas |-> deltas, notFiles |-> notFiles,
   deltaFiles |-> deltaFiles, i |-> i, github |-> github]

NoDeltas == [additions |-> <<>>, modifications |-> <<>>, deletions |-> <<>>]

\* the GitHub service before any call
NoCalls == [repositories |-> {}, branches |-> {}, pushes |-> <<>>, pullRequests |-> <<>>]

\* setupGitAndPush has not been called
NotCalled == GitCall("idle", Undefined, Undefined, "", NoDeltas, {}, <<>>, 0, NoCalls)

NoResponse == [op |-> "none"]
Response(op, taskId, code, body) == [op |-> op, taskId |-> taskId, code |-> code, body |-> body]
ApiError(code) == [j |-> "ApiError", code |-> code]

\* the two ClaudeCodeWebAPI classes of the repository
Servers == {"openapi", "hono"}

\* a server as its constructor leaves it, for a configured rate limit
ConstructedAs(variant, limit) ==
  /\ server = variant
  /\ config = [rateLimitPerMinute |-> limit]
  /\ now = 0
  /\ nextId = 0
  /\ runningTasks = {}
  /\ pc = [t \in TaskIds |-> "unused"]
  /\ request = [t \in TaskIds |-> Undefined]
  /\ startTime = [t \in TaskIds |-> 0]
  /\ stdout = [t \in TaskIds |-> <<>>]
  /\ proc = [t \in TaskIds |-> "none"]
  /\ timer = [t \in TaskIds |-> "none"]
  /\ taskDir = [t \in TaskIds |-> FALSE]
  /\ requestJson = [t \in TaskIds |-> NoFile]
  /\ promptTxt = [t \in TaskIds |-> NoFile]
  /\ outputJson = [t \in TaskIds |-> NoFile]
  /\ repoDir = [t \in TaskIds |-> "none"]
  /\ settled = [t \in TaskIds |-> Undefined]
  /\ waiting = [t \in TaskIds |-> FALSE]
  /\ lastResponse = NoResponse
  /\ rateLimitStore = [client \in Clients |-> Undefined]
  /\ tasks = [t \in TaskIds |-> Undefined]
  /\ git = NotCalled

\* the OpenAPI server as its constructor leaves it
Constructed(limit) == ConstructedAs("openapi", limit)

Init == Constructed(rateLimitPerMinute)


(* ---------------- settlement ---------------- *)

\* executeTask's taskId for the task the server calls t: the OpenAPI server
\* and the development server pass their id on as existingTaskId; the Hono server passes none and
\* executeTask draws an id of its own with nanoid(), different from every id
\* the server has handed out
ExecutorTaskId(t) == IF server = "hono" THEN MaxTasks + t ELSE t

\* development server, the then callback of executeTask's promise: the entry
\* it stores for the task
CompletedTask(t, result) ==
  [result EXCEPT !.taskId = t, !.startedAt = Date(now), !.completedAt = Date(now)]

\* The task's promise resolves with response.  In the same turn of the event
\* loop the finally callback of POST /tasks deletes the map entry and every
\* GET handler that awaits the promise answers with the resolved value.
Settle(t, response) ==
  /\ settled' = [settled EXCEPT ![t] = response]
  /\ pc' = [pc EXCEPT ![t] = "settled"]
  /\ runningTasks' = runningTasks \ {t}
  /\ tasks' = IF server = "dev" THEN [tasks EXCEPT ![t] = CompletedTask(t, response)]
               ELSE tasks
  /\ UNCHANGED git
  /\ waiting' = [waiting EXCEPT ![t] = FALSE]
  /\ lastResponse' = IF waiting[t] THEN Response("GET", t, 200, response)
                     ELSE lastResponse

\* a catch block that runs the task again from the start instead of returning
FailAndRetry(t, message) ==
  /\ pc' = [pc EXCEPT ![t] = "mkdir"]
  /\ UNCHANGED <<runningTasks, tasks, git, settled, waiting, lastResponse>>

\* an executeTask without its catch block, under an executeTaskAsync without
\* its own: the promise rejects and the GET handlers that await it answer 500
Reject(t, message) ==
  /\ settled' = [settled EXCEPT ![t] = [j |-> "rejected", status |-> "rejected",
                                        error |-> Str(message)]]
  /\ pc' = [pc EXCEPT ![t] = "settled"]
  /\ runningTasks' = runningTasks \ {t}
  /\ UNCHANGED <<tasks, git>>
  /\ waiting' = [waiting EXCEPT ![t] = FALSE]
  /\ lastResponse' = IF waiting[t]
                     THEN Response("GET", t, 500, ApiError("TASK_EXECUTION_FAILED"))
                     ELSE lastResponse

\* the catch block of executeTask
Fail(t, message) ==
  Settle(t, ExecuteTaskFailed(ExecutorTaskId(t), request[t], startTime[t], now, message))

(* ---------------- HTTP handlers (ClaudeCodeWebAPI.setupRoutes) ---------------- *)

\* POST /tasks without the admission check
SubmitTaskUnchecked(req) ==
  /\ nextId < MaxTasks
  /\ LET t == nextId + 1
     IN /\ nextId' = t
        /\ runningTasks' = runningTasks \cup {t}
        /\ UNCHANGED <<tasks, git>>
        /\ pc' = [pc EXCEPT ![t] = "mkdir"]
        /\ request' = [request EXCEPT ![t] = req]
        /\ startTime' = [startTime EXCEPT ![t] = now]
        /\ lastResponse' = Response("POST", t, 202,
             TaskResponse(t, "pending", Undefined, Undefined, Undefined,
                          Date(now), Undefined, Undefined, req.metadata))
  /\ UNCHANGED <<now, stdout, proc, timer, disk, settled, waiting>>

\* POST /tasks whose admission check compares with > instead of >=
SubmitTaskOffByOne(req) ==
  IF Cardinality(runningTasks) > maxConcurrentTasks
  THEN /\ lastResponse' = Response("POST", 0, 429, ApiError("CONCURRENT_LIMIT_REACHED"))
       /\ UNCHANGED <<now, nextId, runningTasks, tasks, git, exec, disk, settled, waiting>>
  ELSE /\ nextId < MaxTasks
       /\ LET t == nextId + 1
          IN /\ nextId' = t
             /\ runningTasks' = runningTasks \cup {t}
             /\ UNCHANGED <<tasks, git>>
             /\ pc' = [pc EXCEPT ![t] = "mkdir"]
             /\ request' = [request EXCEPT ![t] = req]
             /\ startTime' = [startTime EXCEPT ![t] = now]
             /\ lastResponse' = Response("POST", t, 202,
                  TaskResponse(t, "pending", Undefined, Undefined, Undefined,
                               Date(now), Undefined, Undefined, req.metadata))
       /\ UNCHANGED <<now, stdout, proc, timer, disk, settled, waiting>>

\* POST /tasks that hands out the id of the first task again
SubmitTaskReusesId(req) ==
  IF Cardinality(runningTasks) >= maxConcurrentTasks
  THEN /\ lastResponse' = Response("POST", 0, 429, ApiError("CONCURRENT_LIMIT_REACHED"))
       /\ UNCHANGED <<now, nextId, runningTasks, tasks, git, exec, disk, settled, waiting>>
  ELSE /\ nextId < MaxTasks
       /\ LET t == 1
          IN /\ nextId' = nextId + 1
             /\ runningTasks' = runningTasks \cup {t}
             /\ UNCHANGED <<tasks, git>>
             /\ pc' = [pc EXCEPT ![t] = "mkdir"]
             /\ request' = [request EXCEPT ![t] = req]
             /\ startTime' = [startTime EXCEPT ![t] = now]
             /\ lastResponse' = Response("POST", t, 202,
                  TaskResponse(t, "pending", Undefined, Undefined, Undefined,
                               Date(now), Undefined, Undefined, req.metadata))
       /\ UNCHANGED <<now, stdout, proc, timer, disk, settled, waiting>>

SubmitTaskRejectsAfterAllocating(req) ==
  IF Cardinality(runningTasks) >= maxConcurrentTasks
  THEN /\ lastResponse' = Response("POST", 0, 429, ApiError("CONCURRENT_LIMIT_REACHED"))
       /\ nextId' = IF nextId < MaxTasks THEN nextId + 1 ELSE nextId
       /\ UNCHANGED <<now, runningTasks, tasks, git, exec, disk, settled, waiting>>
  ELSE /\ nextId < MaxTasks
       /\ LET t == nextId + 1
          IN /\ nextId' = t
             /\ runningTasks' = runningTasks \cup {t}
             /\ UNCHANGED <<tasks, git>>
             /\ pc' = [pc EXCEPT ![t] = "mkdir"]
             /\ request' = [request EXCEPT ![t] = req]
             /\ startTime' = [startTime EXCEPT ![t] = now]
             /\ lastResponse' = Response("POST", t, 202,
                  TaskResponse(t, "pending", Undefined, Undefined, Undefined,
                               Date(now), Undefined, Undefined, req.metadata))
       /\ UNCHANGED <<now, stdout, proc, timer, disk, settled, waiting>>

\* POST /tasks with a schema-valid body
SubmitTask(req) ==
  IF Cardinality(runningTasks) >= maxConcurrentTasks
  THEN /\ lastResponse' = Response("POST", 0, 429, ApiError("CONCURRENT_LIMIT_REACHED"))
       /\ UNCHANGED <<now, nextId, runningTasks, tasks, git, exec, disk, settled, waiting>>
  ELSE /\ nextId < MaxTasks
       /\ LET t == nextId + 1
          IN /\ nextId' = t
             /\ runningTasks' = runningTasks \cup {t}
             /\ UNCHANGED <<tasks, git>>
             /\ pc' = [pc EXCEPT ![t] = "mkdir"]
             /\ request' = [request EXCEPT ![t] = req]
             /\ startTime' = [startTime EXCEPT ![t] = now]
             /\ lastResponse' = Response("POST", t, 202,
                  TaskResponse(t, "pending", Undefined, Undefined, Undefined,
                               Date(now), Undefined, Undefined, req.metadata))
       /\ UNCHANGED <<now, stdout, proc, timer, disk, settled, waiting>>

\* GET /health: the handler reports what executor.healthCheck() found
Health(isHealthy) ==
  /\ lastResponse' = Response("HEALTH", 0, IF isHealthy THEN 200 ELSE 503,
       [j |-> "object", status |-> IF isHealthy THEN "healthy" ELSE "unhealthy",
        activeTasks |-> Cardinality(runningTasks),
        maxConcurrentTasks |-> maxConcurrentTasks])
  /\ UNCHANGED <<now, nextId, runningTasks, tasks, git, exec, disk, settled, waiting>>

\* Bodies of POST /tasks before validation: text that is not JSON, objects
\* that violate TaskRequestSchema, and one object that satisfies it.
MalformedBody == [j |-> "malformed"]
BodyWithoutTaskType == [j |-> "object", prompt |-> Str("Review this code")]
BodyUnknownTaskType == [j |-> "object", taskType |-> Str("deploy")]
BodyTimeoutAsText ==
  [j |-> "object", taskType |-> Str("custom"), timeoutSeconds |-> Str("soon")]
BodyWithPrompt ==
  [j |-> "object", taskType |-> Str("custom"), prompt |-> Str("Calculate 5 + 5"),
   metadata |-> [j |-> "object", source |-> "ci"]]
Bodies ==
  {MalformedBody, BodyWithoutTaskType, BodyUnknownTaskType, BodyTimeoutAsText, BodyWithPrompt}

TaskTypes == {"code-review", "bug-fix", "feature-implementation", "documentation", "custom"}

\* z.<type>().optional() on a property value
Optional(x, type) == x = Undefined \/ x.j = type

\* TaskRequestSchema.safeParse(body).success, on the properties of the model
TaskRequestSchema(body) ==
  /\ body.j = "object"
  /\ Prop(body, "taskType").j = "string"
  /\ Prop(body, "taskType").v \in TaskTypes
  /\ Optional(Prop(body, "prompt"), "string")
  /\ Optional(Prop(body, "timeoutSeconds"), "number")
  /\ Optional(Prop(body, "metadata"), "object")

\* the parsed Task Request: timeoutSeconds is z.number().default(300)
Validated(body) ==
  [taskType |-> body.taskType,
   prompt |-> Prop(body, "prompt"),
   timeoutSeconds |-> IF Prop(body, "timeoutSeconds") = Undefined
                      THEN Num(DefaultTimeoutSeconds)
                      ELSE body.timeoutSeconds,
   metadata |-> Prop(body, "metadata")]

\* What the request gets when its body is not JSON. The JSON validator of the
\* framework either answers 400 itself or throws an HTTP exception of status
\* 400, depending on the version of the framework that is installed; the
\* exception goes to the handler the server registers with onError, which
\* answers every error 500 INTERNAL_ERROR.
MalformedJsonResponses ==
  {[code |-> 400, body |-> [j |-> "object", success |-> FALSE]],
   [code |-> 500, body |-> ApiError("INTERNAL_ERROR")]}

\* POST /tasks from the body on: the validator of the route, then the handler
PostTasks(body) ==
  IF body = MalformedBody
  THEN /\ \E r \in MalformedJsonResponses : lastResponse' = Response("POST", 0, r.code, r.body)
       /\ UNCHANGED <<now, nextId, runningTasks, tasks, git, exec, disk, settled, waiting>>
  ELSE IF ~TaskRequestSchema(body)
  THEN /\ lastResponse' = Response("POST", 0, 400, [j |-> "object", success |-> FALSE])
       /\ UNCHANGED <<now, nextId, runningTasks, tasks, git, exec, disk, settled, waiting>>
  ELSE SubmitTask(Validated(body))

\* GET /tasks/{taskId} for an id that is not in the map: the answer from disk
\* (the stat and readFile calls of getTaskResult are taken as one reading)
PersistedResponse(t) ==
  LET mine == ExecutorTaskId(t) = t   \* the directory named t is that of task t's execution
      persistedTask == getTaskResult(t, mine /\ taskDir[t],
                                     IF mine THEN requestJson[t] ELSE NoFile,
                                     IF mine THEN outputJson[t] ELSE NoFile, now)
  IN IF persistedTask # Undefined
     THEN Response("GET", t, 200, persistedTask)
     ELSE Response("GET", t, 404, ApiError("TASK_NOT_FOUND"))

\* GET /tasks/{taskId}
GetTask(t) ==
  IF t \in runningTasks
  THEN \* the handler awaits the task's promise and answers when it settles
       /\ waiting' = [waiting EXCEPT ![t] = TRUE]
       /\ UNCHANGED <<now, nextId, runningTasks, tasks, git, exec, disk, settled, lastResponse>>
  ELSE /\ lastResponse' = PersistedResponse(t)
       /\ UNCHANGED <<now, nextId, runningTasks, tasks, git, exec, disk, settled, waiting>>

\* DELETE /tasks/{taskId} that also ends the execution: SIGTERM, timer cleared
CancelTaskKills(t) ==
  /\ IF t \in runningTasks
     THEN /\ runningTasks' = runningTasks \ {t}
          /\ UNCHANGED <<tasks, git>>
          /\ proc' = [proc EXCEPT ![t] = IF @ = "running" THEN "signalled" ELSE @]
          /\ timer' = [timer EXCEPT ![t] = IF @ = "armed" THEN "cleared" ELSE @]
          /\ lastResponse' = Response("DELETE", t, 200, [j |-> "object", status |-> "cancelled"])
     ELSE /\ lastResponse' = Response("DELETE", t, 404, ApiError("TASK_NOT_FOUND"))
          /\ UNCHANGED <<runningTasks, tasks, git, proc, timer>>
  /\ UNCHANGED <<now, nextId, pc, request, startTime, stdout, disk, settled, waiting>>

\* DELETE /tasks/{taskId}
CancelTask(t) ==
  /\ IF t \in runningTasks
     THEN /\ runningTasks' = runningTasks \ {t}
          /\ lastResponse' = Response("DELETE", t, 200, [j |-> "object", status |-> "cancelled"])
     ELSE /\ lastResponse' = Response("DELETE", t, 404, ApiError("TASK_NOT_FOUND"))
          /\ UNCHANGED runningTasks
  /\ UNCHANGED <<now, nextId, tasks, git, exec, disk, settled, waiting>>

(* ---------------- HTTP handlers of the development server ---------------- *)

\* POST /tasks: the initial response is stored and executeTask is started
DevSubmitTask(req) ==
  /\ nextId < MaxTasks
  /\ LET taskId == nextId + 1
         initialResponse == TaskResponse(taskId, "pending", Undefined, Undefined, Undefined,
                                         Date(now), Undefined, Undefined, req.metadata)
     IN /\ nextId' = taskId
        /\ tasks' = [tasks EXCEPT ![taskId] = initialResponse]
        /\ UNCHANGED git
        /\ pc' = [pc EXCEPT ![taskId] = "mkdir"]
        /\ request' = [request EXCEPT ![taskId] = req]
        /\ startTime' = [startTime EXCEPT ![taskId] = now]
        /\ lastResponse' = Response("POST", taskId, 202, initialResponse)
  /\ UNCHANGED <<now, runningTasks, stdout, proc, timer, disk, settled, waiting, config, server,
                 rateLimitStore>>

\* GET /tasks/:taskId
DevGetTask(taskId) ==
  /\ lastResponse' = IF tasks[taskId] # Undefined
                     THEN Response("GET", taskId, 200, tasks[taskId])
                     ELSE Response("GET", taskId, 404, ApiError("TASK_NOT_FOUND"))
  /\ UNCHANGED <<now, nextId, runningTasks, tasks, git, exec, disk, settled, waiting, config, server,
                 rateLimitStore>>

\* DELETE /tasks/:taskId
DevCancelTask(taskId) ==
  /\ IF tasks[taskId] # Undefined
     THEN /\ tasks' = [tasks EXCEPT ![taskId] = Undefined]
          /\ UNCHANGED git
          /\ lastResponse' = Response("DELETE", taskId, 200,
                                      [j |-> "object", taskId |-> taskId, status |-> "cancelled"])
     ELSE /\ lastResponse' = Response("DELETE", taskId, 404, ApiError("TASK_NOT_FOUND"))
          /\ UNCHANGED <<tasks, git>>
  /\ UNCHANGED <<now, nextId, runningTasks, exec, disk, settled, waiting, config, server,
                 rateLimitStore>>

(* ---------------- middleware (ClaudeCodeWebAPI.setupMiddleware) ---------------- *)

\* The Authorization and X-API-Key headers callers send; Undefined is a
\* request without the header.
AuthorizationHeaders ==
  {Undefined, Str("Bearer test-api-key"), Str("Bearer wrong-key"), Str("Bearer "),
   Str("test-api-key"), Str("Basic dXNlcjpwdw==")}
XApiKeyHeaders == {Undefined, Str("test-api-key"), Str("wrong-key")}

\* header.replace("Bearer ", "") on the header values of the model
ReplaceBearer(header) ==
  CASE header = "Bearer test-api-key" -> "test-api-key"
    [] header = "Bearer wrong-key" -> "wrong-key"
    [] header = "Bearer " -> ""
    [] OTHER -> header

\* c.req.header("Authorization")?.replace("Bearer ", "") || c.req.header("X-API-Key");
\* "" stands for a key that is undefined or empty, which `!apiKey` treats alike
PresentedKey(authorization, xApiKey) ==
  LET fromAuthorization ==
        IF authorization = Undefined THEN Undefined ELSE Str(ReplaceBearer(authorization.v))
      key == IF Truthy(fromAuthorization) THEN fromAuthorization ELSE xApiKey
  IN IF key = Undefined THEN "" ELSE key.v

\* the keys the middleware extracts from the requests callers send
SentKeys ==
  {PresentedKey(authorization, xApiKey) :
     authorization \in AuthorizationHeaders, xApiKey \in XApiKeyHeaders}

\* the authentication middleware lets the request through
Authenticated(key) == ~enableAuth \/ (key # "" /\ key = apiKey)

\* the rate-limit middleware finds the client's window open and full
RateLimited(client) ==
  LET clientLimit == rateLimitStore[client]
  IN /\ clientLimit # Undefined
     /\ ~(now > clientLimit.resetTime)
     /\ clientLimit.count >= config.rateLimitPerMinute

CountedWithoutExpiry(client) ==
  LET clientLimit == rateLimitStore[client]
  IN IF clientLimit = Undefined
     THEN [count |-> 1, resetTime |-> now + windowMs]
     ELSE [clientLimit EXCEPT !.count = @ + 1]

\* the client's entry after a request that the rate limiter lets through
Counted(client) ==
  LET clientLimit == rateLimitStore[client]
  IN IF clientLimit = Undefined \/ now > clientLimit.resetTime
     THEN [count |-> 1, resetTime |-> now + windowMs]
     ELSE [clientLimit EXCEPT !.count = @ + 1]

\* a request on its way through the middleware chain to its handler
Middleware(op, client, key, handler) ==
  IF ~Authenticated(key)
  THEN /\ lastResponse' = Response(op, 0, 401, ApiError("UNAUTHORIZED"))
       /\ UNCHANGED <<now, nextId, runningTasks, tasks, git, exec, disk, settled, waiting, config, server,
                       rateLimitStore>>
  ELSE IF RateLimited(client)
  THEN /\ lastResponse' = Response(op, 0, 429, ApiError("RATE_LIMIT_EXCEEDED"))
       /\ UNCHANGED <<now, nextId, runningTasks, tasks, git, exec, disk, settled, waiting, config, server,
                       rateLimitStore>>
  ELSE /\ rateLimitStore' = [rateLimitStore EXCEPT ![client] = Counted(client)]
       /\ UNCHANGED <<config, server>>
       /\ handler

\* POST /tasks, GET /tasks/{taskId} and DELETE /tasks/{taskId} as a client sends them
HttpSubmitTask(client, key, req) == Middleware("POST", client, key, SubmitTask(req))
HttpGetTask(client, key, t) == Middleware("GET", client, key, GetTask(t))
HttpCancelTask(client, key, t) == Middleware("DELETE", client, key, CancelTask(t))
HttpPostTasks(client, key, body) == Middleware("POST", client, key, PostTasks(body))
HttpHealth(client, key, isHealthy) == Middleware("HEALTH", client, key, Health(isHealthy))

\* The same requests where the middleware is left out: the request has passed
\* it, and the counters of the rate limiter are not followed.
PassedSubmitTask(req) == SubmitTask(req) /\ UNCHANGED <<config, server, rateLimitStore>>
PassedGetTask(t) == GetTask(t) /\ UNCHANGED <<config, server, rateLimitStore>>
PassedCancelTask(t) == CancelTask(t) /\ UNCHANGED <<config, server, rateLimitStore>>

(* ---------------- executeTask, one continuation per action ---------------- *)

\* createExecutionContext: mkdir(taskDir) succeeded; the defaults are resolved
\* on the request object and request.json is being written
MkdirDone(t) ==
  /\ pc[t] = "mkdir"
  /\ taskDir' = [taskDir EXCEPT ![t] = TRUE]
  /\ request' = [request EXCEPT ![t] = ResolveDefaults(@)]
  /\ pc' = [pc EXCEPT ![t] = "saveRequest"]
  /\ UNCHANGED <<now, nextId, config, server, rateLimitStore, runningTasks, tasks, git, startTime, stdout, proc, timer,
                 requestJson, promptTxt, outputJson, repoDir, settled, waiting, lastResponse>>

\* createExecutionContext: mkdir(taskDir) rejected
MkdirFails(t) ==
  /\ pc[t] = "mkdir"
  /\ Fail(t, "EACCES: permission denied, mkdir")
  /\ UNCHANGED <<now, nextId, config, server, rateLimitStore, request, startTime, stdout, proc, timer, disk>>

\* createExecutionContext has returned: preparePrompt runs up to its write
PreparePrompt(t) ==
  LET prompt == preparePrompt(request[t])
  IN IF prompt.ok
     THEN /\ pc' = [pc EXCEPT ![t] = "savePrompt"]
          /\ UNCHANGED <<runningTasks, tasks, git, settled, waiting, lastResponse>>
     ELSE Fail(t, prompt.error)

\* a createExecutionContext that goes on without having written request.json
RequestSavedLater(t) ==
  /\ pc[t] = "saveRequest"
  /\ IF Truthy(Prop(request[t], "repoUrl"))
     THEN /\ pc' = [pc EXCEPT ![t] = "createBranch"]
          /\ UNCHANGED <<runningTasks, tasks, git, settled, waiting, lastResponse>>
     ELSE PreparePrompt(t)
  /\ UNCHANGED <<now, nextId, config, server, rateLimitStore, request, startTime, stdout, proc, timer, disk>>

\* createExecutionContext: request.json written; with a repoUrl the hotfix
\* branch is requested, without one createExecutionContext returns
RequestSaved(t) ==
  /\ pc[t] = "saveRequest"
  /\ requestJson' = [requestJson EXCEPT ![t] = File(JSONstringify(request[t]), now)]
  /\ IF Truthy(Prop(request[t], "repoUrl"))
     THEN /\ pc' = [pc EXCEPT ![t] = "createBranch"]
          /\ UNCHANGED <<runningTasks, tasks, git, settled, waiting, lastResponse>>
     ELSE PreparePrompt(t)
  /\ UNCHANGED <<now, nextId, config, server, rateLimitStore, request, startTime, stdout, proc, timer,
                 taskDir, promptTxt, outputJson, repoDir>>

\* createExecutionContext: createBranch succeeded; the hotfix branch is downloaded
BranchCreated(t) ==
  /\ pc[t] = "createBranch"
  /\ pc' = [pc EXCEPT ![t] = "downloadHotfix"]
  /\ UNCHANGED <<now, nextId, config, server, rateLimitStore, runningTasks, tasks, git, request, startTime, stdout, proc, timer,
                 disk, settled, waiting, lastResponse>>

\* a createExecutionContext that gives up when the hotfix branch cannot be created
BranchFailsAborts(t) ==
  /\ pc[t] = "createBranch"
  /\ Fail(t, "Failed to setup repository: Failed to create branch: 422 Unprocessable")
  /\ UNCHANGED <<now, nextId, config, server, rateLimitStore, request, startTime, stdout, proc, timer, disk>>

\* createExecutionContext: createBranch threw; the base branch is downloaded
BranchFails(t) ==
  /\ pc[t] = "createBranch"
  /\ pc' = [pc EXCEPT ![t] = "downloadMain"]
  /\ UNCHANGED <<now, nextId, config, server, rateLimitStore, runningTasks, tasks, git, request, startTime, stdout, proc, timer,
                 disk, settled, waiting, lastResponse>>

\* createExecutionContext: downloadRepo succeeded; preparePrompt runs up to its write
RepoDownloaded(t) ==
  /\ pc[t] \in {"downloadHotfix", "downloadMain"}
  /\ repoDir' = [repoDir EXCEPT ![t] = IF pc[t] = "downloadHotfix" THEN "hotfix" ELSE "main"]
  /\ PreparePrompt(t)
  /\ UNCHANGED <<now, nextId, config, server, rateLimitStore, request, startTime, stdout, proc, timer,
                 taskDir, requestJson, promptTxt, outputJson>>

\* createExecutionContext: downloadRepo threw
RepoDownloadFails(t) ==
  /\ pc[t] \in {"downloadHotfix", "downloadMain"}
  /\ Fail(t, "Failed to setup repository: Failed to download repo: 404 Not Found")
  /\ UNCHANGED <<now, nextId, config, server, rateLimitStore, request, startTime, stdout, proc, timer, disk>>

\* preparePrompt: prompt.txt written; executeClaude spawns the agent and arms the timer
PromptSaved(t) ==
  /\ pc[t] = "savePrompt"
  /\ promptTxt' = [promptTxt EXCEPT ![t] = File(preparePrompt(request[t]).value, now)]
  /\ proc' = [proc EXCEPT ![t] = "running"]
  /\ timer' = [timer EXCEPT ![t] = "armed"]
  /\ pc' = [pc EXCEPT ![t] = "running"]
  /\ UNCHANGED <<now, nextId, config, server, rateLimitStore, runningTasks, tasks, git, request, startTime, stdout,
                 taskDir, requestJson, outputJson, repoDir, settled, waiting, lastResponse>>

ExitCodes == {Num(0), Num(1), Null}
ContextExitCodes == ExitCodes \cup {Num(2)}
StderrTexts == {"", "claude: not logged in"}

\* an executeClaude whose close listener leaves the timeout timer running
ProcessClosesKeepsTimer(t, code, output, errorOutput) ==
  /\ proc[t] \in {"running", "signalled"}
  /\ proc[t] = "signalled" => code = Null
  /\ proc' = [proc EXCEPT ![t] = "exited"]
  /\ IF pc[t] # "running"
     THEN UNCHANGED <<pc, stdout, timer, runningTasks, tasks, git, settled, waiting, lastResponse>>
     ELSE LET exitCode == IF code = Null THEN 0 ELSE code.v
          IN /\ UNCHANGED timer
             /\ IF exitCode # 0
                THEN /\ Fail(t, "Claude execution failed: " \o
                            (IF errorOutput # "" THEN errorOutput
                             ELSE "Claude process exited with code " \o ToString(exitCode)))
                     /\ UNCHANGED stdout
                ELSE /\ stdout' = [stdout EXCEPT ![t] = output]
                     /\ pc' = [pc EXCEPT ![t] = "saveOutput"]
                     /\ UNCHANGED <<runningTasks, tasks, git, settled, waiting, lastResponse>>
  /\ UNCHANGED <<now, nextId, config, server, rateLimitStore, request, startTime, disk>>

\* an executeClaude whose failure message always names the exit code
ProcessClosesNamesCodeOnly(t, code, output, errorOutput) ==
  /\ proc[t] \in {"running", "signalled"}
  /\ proc[t] = "signalled" => code = Null
  /\ proc' = [proc EXCEPT ![t] = "exited"]
  /\ IF pc[t] # "running"
     THEN UNCHANGED <<pc, stdout, timer, runningTasks, tasks, git, settled, waiting, lastResponse>>
     ELSE LET exitCode == IF code = Null THEN 0 ELSE code.v
          IN /\ timer' = [timer EXCEPT ![t] = "cleared"]
             /\ IF exitCode # 0
                THEN /\ Fail(t, "Claude execution failed: " \o
                            "Claude process exited with code " \o ToString(exitCode))
                     /\ UNCHANGED stdout
                ELSE /\ stdout' = [stdout EXCEPT ![t] = output]
                     /\ pc' = [pc EXCEPT ![t] = "saveOutput"]
                     /\ UNCHANGED <<runningTasks, tasks, git, settled, waiting, lastResponse>>
  /\ UNCHANGED <<now, nextId, config, server, rateLimitStore, request, startTime, disk>>

\* executeClaude: the subprocess closes with exit code `code` (null when a
\* signal ended it), `output` captured from stdout and `errorOutput` from stderr
ProcessCloses(t, code, output, errorOutput) ==
  /\ proc[t] \in {"running", "signalled"}
  /\ proc[t] = "signalled" => code = Null
  /\ proc' = [proc EXCEPT ![t] = "exited"]
  /\ IF pc[t] # "running"
     THEN \* the timeout already won the race: resolve() has no effect
          UNCHANGED <<pc, stdout, timer, runningTasks, tasks, git, settled, waiting, lastResponse>>
     ELSE LET exitCode == IF code = Null THEN 0 ELSE code.v
          IN /\ timer' = [timer EXCEPT ![t] = "cleared"]
             /\ IF exitCode # 0
                THEN /\ Fail(t, "Claude execution failed: " \o
                            (IF errorOutput # "" THEN errorOutput
                             ELSE "Claude process exited with code " \o ToString(exitCode)))
                     /\ UNCHANGED stdout
                ELSE /\ stdout' = [stdout EXCEPT ![t] = output]
                     /\ pc' = [pc EXCEPT ![t] = "saveOutput"]
                     /\ UNCHANGED <<runningTasks, tasks, git, settled, waiting, lastResponse>>
  /\ UNCHANGED <<now, nextId, config, server, rateLimitStore, request, startTime, disk>>

\* an executeClaude without a listener for the error event of the child process
ProcessErrorsUnheard(t) ==
  /\ pc[t] = "running"
  /\ proc[t] = "running"
  /\ proc' = [proc EXCEPT ![t] = "exited"]
  /\ UNCHANGED <<now, nextId, config, server, rateLimitStore, pc, request, startTime, stdout, timer, disk,
                 runningTasks, tasks, git, settled, waiting, lastResponse>>

\* executeClaude: the child process emits error (the agent could not be launched)
ProcessErrors(t) ==
  /\ pc[t] = "running"
  /\ proc[t] = "running"
  /\ proc' = [proc EXCEPT ![t] = "exited"]
  /\ timer' = [timer EXCEPT ![t] = "cleared"]
  /\ Fail(t, "Claude execution failed: Claude process exited with code 1")
  /\ UNCHANGED <<now, nextId, config, server, rateLimitStore, request, startTime, stdout, disk>>

\* a timeout timer that signals the subprocess and leaves the race undecided
TimeoutFiresKillsOnly(t) ==
  /\ timer[t] = "armed"
  /\ timer' = [timer EXCEPT ![t] = "fired"]
  /\ proc' = [proc EXCEPT ![t] = "signalled"]
  /\ UNCHANGED <<now, nextId, config, server, rateLimitStore, pc, request, startTime, stdout, disk,
                 runningTasks, tasks, git, settled, waiting, lastResponse>>

\* a timeout timer that rejects without signalling the subprocess
TimeoutFiresWithoutKill(t) ==
  /\ timer[t] = "armed"
  /\ timer' = [timer EXCEPT ![t] = "fired"]
  /\ Fail(t, "Claude execution timed out after " \o
             ToString(request[t].timeoutSeconds.v) \o " seconds")
  /\ UNCHANGED <<now, nextId, config, server, rateLimitStore, request, startTime, stdout, proc, disk>>

\* executeClaude: the timeout timer fires
TimeoutFires(t) ==
  /\ timer[t] = "armed"
  /\ timer' = [timer EXCEPT ![t] = "fired"]
  /\ proc' = [proc EXCEPT ![t] = "signalled"]
  /\ Fail(t, "Claude execution timed out after " \o
             ToString(request[t].timeoutSeconds.v) \o " seconds")
  /\ UNCHANGED <<now, nextId, config, server, rateLimitStore, request, startTime, stdout, disk>>

\* a processOutput that interprets first and saves the raw output on success only
OutputSavedOnSuccess(t) ==
  /\ pc[t] = "saveOutput"
  /\ LET result == processOutput(stdout[t])
     IN IF result.ok
        THEN /\ outputJson' = [outputJson EXCEPT ![t] = File(stdout[t], now)]
             /\ Settle(t, ExecuteTaskCompleted(ExecutorTaskId(t), request[t], startTime[t], now, result.value))
        ELSE /\ UNCHANGED outputJson
             /\ Fail(t, result.error)
  /\ UNCHANGED <<now, nextId, config, server, rateLimitStore, request, startTime, stdout, proc, timer,
                 taskDir, requestJson, promptTxt, repoDir>>

\* processOutput: output.json written; the lines are interpreted, executeTask returns
OutputSaved(t) ==
  /\ pc[t] = "saveOutput"
  /\ outputJson' = [outputJson EXCEPT ![t] = File(stdout[t], now)]
  /\ LET result == processOutput(stdout[t])
     IN IF result.ok
        THEN Settle(t, ExecuteTaskCompleted(ExecutorTaskId(t), request[t], startTime[t], now, result.value))
        ELSE Fail(t, result.error)
  /\ UNCHANGED <<now, nextId, config, server, rateLimitStore, request, startTime, stdout, proc, timer,
                 taskDir, requestJson, promptTxt, repoDir>>

\* time passes
Tick ==
  /\ now < MaxClock
  /\ now' = now + 1
  /\ UNCHANGED <<nextId, config, server, rateLimitStore, runningTasks, tasks, git, exec, disk, settled, waiting,
                 lastResponse>>

\* The outputs the agent prints in the server-level specification: a result
\* after noise, an error text without a result, nothing at all.
ServerOutputs == {<<LineNoise, LineResultA>>, <<LineError>>, <<>>}

\* The server: any number of clients and tasks, within one reading of the clock.
Next ==
  \/ \E req \in Requests : PassedSubmitTask(req)
  \/ \E t \in TaskIds : PassedGetTask(t)
  \/ \E t \in TaskIds : PassedCancelTask(t)
  \/ \E t \in TaskIds : MkdirDone(t)
  \/ \E t \in TaskIds : MkdirFails(t)
  \/ \E t \in TaskIds : RequestSaved(t)
  \/ \E t \in TaskIds : PromptSaved(t)
  \/ \E t \in TaskIds, code \in ExitCodes, output \in ServerOutputs, errorOutput \in StderrTexts :
        ProcessCloses(t, code, output, errorOutput)
  \/ \E t \in TaskIds : ProcessErrors(t)
  \/ \E t \in TaskIds : TimeoutFires(t)
  \/ \E t \in TaskIds : OutputSaved(t)

Spec == Init /\ [][Next]_vars

\* POST /tasks, the first accepted submission and the rejected ones of a run
SubmitFirstTask(req) ==
  /\ PassedSubmitTask(req)
  /\ nextId' <= 1

\* One task from submission to settlement and beyond, with every output of up
\* to MaxLines lines and with time passing.
NextExec ==
  \/ \E req \in ExecRequests : SubmitFirstTask(req)
  \/ PassedGetTask(1)
  \/ PassedCancelTask(1)
  \/ MkdirDone(1)
  \/ MkdirFails(1)
  \/ RequestSaved(1)
  \/ PromptSaved(1)
  \/ \E code \in ExitCodes, output \in Outputs, errorOutput \in StderrTexts :
        ProcessCloses(1, code, output, errorOutput)
  \/ ProcessErrors(1)
  \/ TimeoutFires(1)
  \/ OutputSaved(1)
  \/ Tick

SpecExec == Init /\ [][NextExec]_vars

\* the requests of the execution-context specification: every combination of
\* category, inline prompt, prompt file, repository and caller-chosen limits
ContextRequests ==
  {[taskType |-> Str(taskType), prompt |-> prompt, promptFile |-> promptFile,
    repoUrl |-> repoUrl, allowedTools |-> limits[1], maxTurns |-> limits[2],
    timeoutSeconds |-> Num(DefaultTimeoutSeconds), metadata |-> Undefined] :
     taskType \in {"custom", "code-review"},
     prompt \in {Undefined, Str(""), Str(" "), Str("Calculate 5 + 5")},
     promptFile \in {Undefined} \cup {Str(path) : path \in PromptFilePaths},
     repoUrl \in {Undefined, Str("https://github.com/owner/repo")},
     limits \in {<<Undefined, Undefined>>, <<Str("Read"), Num(5)>>, <<Str(""), Num(0)>>}}

\* One task from submission to settlement, for every shape of request: the
\* execution context, the repository, the prompt, the run of the agent.
NextContext ==
  \/ \E req \in ContextRequests : SubmitFirstTask(req)
  \/ PassedGetTask(1)
  \/ PassedCancelTask(1)
  \/ MkdirDone(1)
  \/ MkdirFails(1)
  \/ RequestSaved(1)
  \/ BranchCreated(1)
  \/ BranchFails(1)
  \/ RepoDownloaded(1)
  \/ RepoDownloadFails(1)
  \/ PromptSaved(1)
  \/ \E code \in ContextExitCodes, output \in ServerOutputs, errorOutput \in StderrTexts :
        ProcessCloses(1, code, output, errorOutput)
  \/ ProcessErrors(1)
  \/ TimeoutFires(1)
  \/ OutputSaved(1)

SpecContext == Init /\ [][NextContext]_vars

\* One task under fair scheduling of the event loop: an armed timer fires
\* unless it is cleared, and the write of output.json completes.  Nothing
\* makes the subprocess exit.
SpecContextFair ==
  /\ SpecContext
  /\ WF_vars(TimeoutFires(1))
  /\ WF_vars(OutputSaved(1))

\* Either server of the repository, with several tasks.
InitServers == \E variant \in Servers : ConstructedAs(variant, rateLimitPerMinute)

SpecServers == InitServers /\ [][Next]_vars

\* The development server: no in-flight ceiling, the tasks map instead of
\* runningTasks, the same executor.
InitDev == ConstructedAs("dev", rateLimitPerMinute)

NextDev ==
  \/ \E req \in Requests : DevSubmitTask(req)
  \/ \E t \in TaskIds : DevGetTask(t)
  \/ \E t \in TaskIds : DevCancelTask(t)
  \/ \E t \in TaskIds : MkdirDone(t)
  \/ \E t \in TaskIds : MkdirFails(t)
  \/ \E t \in TaskIds : RequestSaved(t)
  \/ \E t \in TaskIds : PromptSaved(t)
  \/ \E t \in TaskIds, code \in ExitCodes, output \in ServerOutputs, errorOutput \in StderrTexts :
        ProcessCloses(t, code, output, errorOutput)
  \/ \E t \in TaskIds : ProcessErrors(t)
  \/ \E t \in TaskIds : TimeoutFires(t)
  \/ \E t \in TaskIds : OutputSaved(t)

SpecDev == InitDev /\ [][NextDev]_vars

\* The server behind its middleware: callers with and without the API key,
\* each counted by the rate limiter.
NextHttp ==
  \/ \E client \in Clients, key \in SentKeys, req \in Requests : HttpSubmitTask(client, key, req)
  \/ \E client \in Clients, key \in SentKeys, body \in Bodies : HttpPostTasks(client, key, body)
  \/ \E client \in Clients, key \in SentKeys, isHealthy \in BOOLEAN :
        HttpHealth(client, key, isHealthy)
  \/ \E client \in Clients, key \in SentKeys, t \in TaskIds : HttpGetTask(client, key, t)
  \/ \E client \in Clients, key \in SentKeys, t \in TaskIds : HttpCancelTask(client, key, t)
  \/ \E t \in TaskIds : MkdirDone(t)
  \/ \E t \in TaskIds : MkdirFails(t)
  \/ \E t \in TaskIds : RequestSaved(t)
  \/ \E t \in TaskIds : PromptSaved(t)
  \/ \E t \in TaskIds, code \in ExitCodes, output \in ServerOutputs, errorOutput \in StderrTexts :
        ProcessCloses(t, code, output, errorOutput)
  \/ \E t \in TaskIds : ProcessErrors(t)
  \/ \E t \in TaskIds : TimeoutFires(t)
  \/ \E t \in TaskIds : OutputSaved(t)

SpecHttp == Init /\ [][NextHttp]_vars

\* The rate limiter over time: the server is configured with any of a few
\* limits, clients send requests to the routes, and the clock moves by a
\* millisecond or by the length of a window.
ConfiguredLimits == {0, 1, 2}

InitRateLimit == \E limit \in ConfiguredLimits : Constructed(limit)

\* a window's length of time passes
WindowPasses ==
  /\ now <= MaxClock
  /\ now' = now + windowMs
  /\ UNCHANGED <<nextId, config, server, rateLimitStore, runningTasks, tasks, git, exec, disk, settled, waiting,
                 lastResponse>>

NextRateLimit ==
  \/ \E client \in Clients, key \in SentKeys, isHealthy \in BOOLEAN :
        HttpHealth(client, key, isHealthy)
  \/ \E client \in Clients, key \in SentKeys, body \in Bodies : HttpPostTasks(client, key, body)
  \/ \E client \in Clients, key \in SentKeys, t \in TaskIds : HttpGetTask(client, key, t)
  \/ \E client \in Clients, key \in SentKeys, t \in TaskIds : HttpCancelTask(client, key, t)
  \/ Tick
  \/ WindowPasses

SpecRateLimit == InitRateLimit /\ [][NextRateLimit]_vars

TypeOK ==
  /\ now \in 0..MaxClock
  /\ nextId \in 0..MaxTasks
  /\ runningTasks \subseteq 1..nextId

(* ---------------- setupGitAndPush (git-utils.ts) ---------------- *)

\* what the rest of the program keeps while setupGitAndPush runs
Elsewhere == <<now, nextId, runningTasks, tasks, exec, disk, settled, waiting, lastResponse,
               config, server, rateLimitStore>>

\* `repoOwner || process.env.GITHUB_REPO_OWNER`
Usernames == {Undefined, Str("octo")}

\* options.featureBranch
FeatureBranches == {Undefined, Str(""), Str("feature/login")}

\* `ai-update-${timestamp}`
GeneratedBranch == "ai-update-2026-01-01T00-00-00-000Z"

\* the paths of one list of `git status --porcelain`
Paths(list, n) == [k \in 1..n |-> [list |-> list, k |-> k]]

ListLengths == (0..MaxSurplus) \cup (BATCH_SIZE..(BATCH_SIZE + MaxSurplus))

\* what calculateDeltas returns
GitDeltas ==
  {[additions |-> Paths("additions", a), modifications |-> Paths("modifications", m),
    deletions |-> Paths("deletions", d)] : a \in ListLengths, m \in ListLengths, d \in ListLengths}

\* The added and modified paths that are not readable files: an untracked
\* directory, which `git status --porcelain` lists as one path, and a file
\* that readFile fails on.
NotFiles(deltas) ==
  SUBSET ({deltas.additions[k] : k \in (1..1) \cap DOMAIN deltas.additions}
            \cup {deltas.modifications[k] : k \in (1..1) \cap DOMAIN deltas.modifications})

\* the deltaFiles array: the added and modified files with their content, then
\* the deleted paths with content null
DeltaFiles(deltas, notFiles) ==
  LET readable == SelectSeq(deltas.additions \o deltas.modifications,
                            LAMBDA filePath : filePath \notin notFiles)
  IN [k \in 1..Len(readable) |-> [path |-> readable[k], content |-> "base64"]]
     \o [k \in 1..Len(deltas.deletions) |-> [path |-> deltas.deletions[k], content |-> "null"]]

\* deltaFiles.slice(i, i + BATCH_SIZE)
slice(array, start, end) ==
  [k \in 1..((IF end < Len(array) THEN end ELSE Len(array)) - start) |-> array[start + k]]

parentBranchOnlyFirstIsMain(providedBranch, targetBranch, i) ==
  IF i = 0 THEN "main" ELSE targetBranch

\* the parent of the batch that starts at index i
parentBranch(providedBranch, targetBranch, i) ==
  IF ~Truthy(providedBranch) /\ i = 0 THEN "main" ELSE targetBranch

\* where the call goes once the target branch is settled
AfterBranch(call) ==
  IF Len(call.deltaFiles) > 0 THEN [call EXCEPT !.pc = "push", !.i = 0]
  ELSE [call EXCEPT !.pc = "completed"]

\* the call: the options are read, the owner is resolved
SetupGitAndPush(username, skipRepoCreation, featureBranch) ==
  /\ git.pc = "idle"
  /\ git' = [git EXCEPT !.username = username,
                        !.providedBranch = featureBranch,
                        !.pc = IF ~Truthy(username) THEN "thrown"
                               ELSE IF ~skipRepoCreation THEN "github-create-repo"
                               ELSE "pushing-deltas"]
  /\ UNCHANGED Elsewhere

\* gh.createRepository and gh.addFile
CreateRepository(ok) ==
  /\ git.pc = "github-create-repo"
  /\ git' = IF ok
            THEN [git EXCEPT !.pc = "pushing-deltas",
                             !.github.repositories = @ \cup {git.username.v}]
            ELSE [git EXCEPT !.pc = "thrown"]
  /\ UNCHANGED Elsewhere

\* calculateDeltas throws
CalculateDeltasFails ==
  /\ git.pc = "pushing-deltas"
  /\ git' = [git EXCEPT !.pc = "thrown"]
  /\ UNCHANGED Elsewhere

\* git init, calculateDeltas, the files are read, the target branch is named
CalculateDeltas(deltas, notFiles) ==
  /\ git.pc = "pushing-deltas"
  /\ LET targetBranch == IF Truthy(git.providedBranch) THEN git.providedBranch.v
                         ELSE GeneratedBranch
         call == [git EXCEPT !.deltas = deltas, !.notFiles = notFiles,
                             !.deltaFiles = DeltaFiles(deltas, notFiles),
                             !.targetBranch = targetBranch]
     IN git' = IF ~Truthy(git.providedBranch) THEN [call EXCEPT !.pc = "create-branch"]
               ELSE AfterBranch(call)
  /\ UNCHANGED Elsewhere

\* gh.createBranch; a failure is logged and the function goes on
CreateBranch(ok) ==
  /\ git.pc = "create-branch"
  /\ git' = AfterBranch(IF ok
                        THEN [git EXCEPT !.github.branches =
                                @ \cup {[name |-> git.targetBranch, from |-> "main"]}]
                        ELSE git)
  /\ UNCHANGED Elsewhere

\* gh.pushChanges for the batch that starts at index i
PushBatch(ok) ==
  /\ git.pc = "push"
  /\ LET batch == slice(git.deltaFiles, git.i, git.i + BATCH_SIZE)
         push == [files |-> batch, branch |-> git.targetBranch,
                  parentBranch |-> parentBranch(git.providedBranch, git.targetBranch, git.i)]
     IN git' = IF ok
               THEN [git EXCEPT !.github.pushes = Append(@, push),
                                !.i = @ + BATCH_SIZE,
                                !.pc = IF git.i + BATCH_SIZE < Len(git.deltaFiles)
                                       THEN "push" ELSE "create-pr"]
               ELSE [git EXCEPT !.pc = "thrown"]
  /\ UNCHANGED Elsewhere

\* gh.createPullRequest; a failure is logged and the function completes
CreatePullRequest(ok) ==
  /\ git.pc = "create-pr"
  /\ git' = [git EXCEPT !.pc = "completed",
                        !.github.pullRequests =
                           IF ok THEN Append(@, [head |-> git.targetBranch, base |-> "main"])
                           ELSE @]
  /\ UNCHANGED Elsewhere

\* One call of setupGitAndPush with every choice of options, of deltas and of
\* outcome of each GitHub call.
NextGit ==
  \/ \E username \in Usernames, skipRepoCreation \in BOOLEAN, featureBranch \in FeatureBranches :
        SetupGitAndPush(username, skipRepoCreation, featureBranch)
  \/ \E ok \in BOOLEAN : CreateRepository(ok)
  \/ CalculateDeltasFails
  \/ \E deltas \in GitDeltas : \E notFiles \in NotFiles(deltas) : CalculateDeltas(deltas, notFiles)
  \/ \E ok \in BOOLEAN : CreateBranch(ok)
  \/ \E ok \in BOOLEAN : PushBatch(ok)
  \/ \E ok \in BOOLEAN : CreatePullRequest(ok)

SpecGit == Init /\ [][NextGit]_vars

(* ---------------- properties ---------------- *)

Terminal(status) == status \in {"completed", "failed", "timeout"}

\* the response from disk for task t, as getTaskResult reconstructs it now
Reconstructed(t) == getTaskResult(t, taskDir[t], requestJson[t], outputJson[t], now)

\* C1: the in-flight index never holds more than maxConcurrentTasks entries,
\* and a POST /tasks answered while the index is at or above the ceiling is
\* answered 429 CONCURRENT_LIMIT_REACHED and starts nothing: no id is
\* allocated, no entry added, no execution begun.
C1_AdmissionCeiling ==
  /\ [](Cardinality(runningTasks) <= maxConcurrentTasks)
  /\ [][(/\ lastResponse' # lastResponse
         /\ lastResponse'.op = "POST"
         /\ Cardinality(runningTasks) >= maxConcurrentTasks)
        => (/\ lastResponse'.code = 429
            /\ lastResponse'.body.code = "CONCURRENT_LIMIT_REACHED"
            /\ UNCHANGED <<nextId, runningTasks, exec, disk, settled, waiting>>)]_vars

\* C1 witness: a submission has just been rejected with the index at the ceiling
C1_RejectedAtCeiling ==
  /\ lastResponse.op = "POST"
  /\ lastResponse.code = 429
  /\ Cardinality(runningTasks) = maxConcurrentTasks

\* C2: a GET /tasks/{id} issued while the task is in flight is answered at
\* once, with status pending.
C2_GetInFlightAnswersPending ==
  [][\A t \in TaskIds :
       (t \in runningTasks /\ GetTask(t))
       => (/\ lastResponse'.op = "GET"
           /\ lastResponse'.taskId = t
           /\ lastResponse'.code = 200
           /\ lastResponse'.body.status = "pending")]_vars

\* C3: a task whose timeout timer fired while its subprocess was running has
\* final status timeout.
C3_TimedOutTaskHasStatusTimeout ==
  \A t \in TaskIds : timer[t] = "fired" => settled[t].status = "timeout"

\* C4: once a GET /tasks/{id} has returned a terminal status, the next GET
\* response for the same task has the same status, result and error.
C4_TerminalResponseNeverChanges ==
  [][\A t \in TaskIds :
       (/\ lastResponse.op = "GET" /\ lastResponse.taskId = t
        /\ lastResponse.code = 200 /\ Terminal(lastResponse.body.status)
        /\ lastResponse'.op = "GET" /\ lastResponse'.taskId = t)
       => (/\ lastResponse'.code = 200
           /\ lastResponse'.body.status = lastResponse.body.status
           /\ lastResponse'.body.result = lastResponse.body.result
           /\ lastResponse'.body.error = lastResponse.body.error)]_vars

\* C5: a GET /tasks/{id} issued after the task settled as failed with error
\* message M returns 200 with status failed and error M.
C5_FailureMessageIsReported ==
  [][\A t \in TaskIds :
       (pc[t] = "settled" /\ settled[t].status = "failed" /\ GetTask(t))
       => (/\ lastResponse'.op = "GET" /\ lastResponse'.taskId = t
           /\ lastResponse'.code = 200
           /\ lastResponse'.body.status = "failed"
           /\ lastResponse'.body.error = settled[t].error)]_vars

\* C6: a GET for an id that a 202 response returned is never answered 404, and
\* 404 is answered only for ids that are neither in the index nor on disk.
C6_SubmittedTaskStaysRetrievable ==
  [][\A t \in TaskIds :
       (GetTask(t) /\ t \notin runningTasks)
       => (/\ t <= nextId => lastResponse'.code = 200
           /\ lastResponse'.code = 404 => ~taskDir[t])]_vars

\* C7: after settlement the response to GET /tasks/{id} is the same whenever
\* it is asked for: no step changes, in any field, what a GET would return.
C7_GetAfterSettlementIsIdempotent ==
  [][\A t \in TaskIds :
       pc[t] = "settled" => PersistedResponse(t)' = PersistedResponse(t)]_vars

\* C8: for every settled task whose directory getTaskResult can read, the
\* response reconstructed from request.json and output.json has the status of
\* the response executeTask returned.
C8_StatusRoundTrip ==
  \A t \in TaskIds :
    (pc[t] = "settled" /\ Reconstructed(t) # Undefined)
    => Reconstructed(t).status = settled[t].status

\* C8 witness: a task settled as failed after its output had been written
\* (no result line), and its response is reconstructed from disk
C8_SettledWithOutputButNoResult ==
  \E t \in TaskIds :
    /\ pc[t] = "settled" /\ settled[t].status = "failed"
    /\ outputJson[t] # NoFile /\ Len(outputJson[t].content) = MaxLines
    /\ Reconstructed(t) # Undefined

\* C9: for every task settled as completed, the result reconstructed from
\* disk equals the result of the response executeTask returned.
C9_ResultRoundTrip ==
  \A t \in TaskIds :
    (pc[t] = "settled" /\ settled[t].status = "completed")
    => Reconstructed(t).result = settled[t].result

\* C10: for every task whose output, written after exit 0, contains a result
\* line, the executionMetrics of its response (as returned by executeTask and
\* as reconstructed by getTaskResult) are the duration, turn count, cost and
\* number of permission denials of the last result line.
C10_MetricsAreThoseOfLastResultLine ==
  \A t \in TaskIds :
    (/\ pc[t] = "settled" /\ outputJson[t] # NoFile
     /\ \E i \in 1..Len(outputJson[t].content) :
          outputJson[t].content[i] \in {LineResultA, LineResultB})
    => LET content == outputJson[t].content
           resultLines == {i \in 1..Len(content) : content[i] \in {LineResultA, LineResultB}}
           last == JSONparse(content[CHOOSE i \in resultLines : \A k \in resultLines : k <= i])
           metrics == [durationMs |-> last.duration_ms,
                       numTurns |-> last.num_turns,
                       totalCostUsd |-> last.total_cost_usd,
                       permissionDenials |-> Num(Len(last.permission_denials))]
       IN /\ settled[t].executionMetrics = metrics
          /\ Reconstructed(t).executionMetrics = metrics

\* C11: DELETE /tasks/{taskId} is bookkeeping only.  For an id in the index it
\* removes exactly that entry and answers 200 with status cancelled; for an id
\* that is absent it answers 404 TASK_NOT_FOUND and removes nothing.  Either
\* way the subprocess, its timeout timer, the executor's position and the
\* files on disk are what they were before the request.
C11_CancelIsBookkeepingOnly ==
  [][ (lastResponse' # lastResponse /\ lastResponse'.op = "DELETE") =>
        LET t == lastResponse'.taskId
        IN /\ proc' = proc /\ timer' = timer /\ pc' = pc
           /\ disk' = disk /\ settled' = settled
           /\ IF t \in runningTasks
              THEN /\ lastResponse'.code = 200
                   /\ lastResponse'.body.status = "cancelled"
                   /\ runningTasks' = runningTasks \ {t}
              ELSE /\ lastResponse'.code = 404
                   /\ lastResponse'.body = ApiError("TASK_NOT_FOUND")
                   /\ runningTasks' = runningTasks ]_vars

\* a cancelled task whose subprocess is still running with its timer armed
C11_CancelledTaskStillRuns ==
  \E t \in TaskIds :
    /\ lastResponse.op = "DELETE" /\ lastResponse.taskId = t /\ lastResponse.code = 200
    /\ t \notin runningTasks
    /\ proc[t] = "running" /\ timer[t] = "armed"

\* C12: when the timeout timer of a task expires before its subprocess has
\* closed, the subprocess is sent the termination signal and the execution
\* fails with a message that names the request's timeout in seconds; a
\* subprocess that is running unsignalled always has its timer still armed.
C12_TimeoutSignalsAndNamesTheLimit ==
  \A t \in TaskIds :
    /\ proc[t] = "running" => timer[t] = "armed"
    /\ timer[t] = "fired" =>
         /\ proc[t] \in {"signalled", "exited"}
         /\ settled[t] # Undefined
         /\ settled[t].status = "failed"
         /\ settled[t].error =
              (CASE request[t].timeoutSeconds = Num(1) ->
                      Str("Claude execution timed out after 1 seconds")
                 [] request[t].timeoutSeconds = Num(300) ->
                      Str("Claude execution timed out after 300 seconds"))

\* a task with a one-second timeout whose timer fired while the subprocess ran
C12_ShortTimeoutFired ==
  /\ timer[1] = "fired"
  /\ proc[1] = "signalled"
  /\ request[1].timeoutSeconds = Num(1)

\* C13: however the subprocess of a spawned task ends (exit 0, non-zero exit,
\* launch error, timeout), once the execution has settled the captured
\* standard output has been handed to processOutput and output.json holds it.
C13_CapturedOutputIsAlwaysSaved ==
  \A t \in TaskIds :
    (pc[t] = "settled" /\ proc[t] # "none") =>
       /\ outputJson[t] # NoFile
       /\ outputJson[t].content = stdout[t]

\* C15: processOutput skips the lines that do not decode and returns the last
\* decoded value whose type is result, whatever else the output holds: an
\* output with a result line completes with the value of its last result line.
C15_LastResultLineWins ==
  outputJson[1] # NoFile =>
    LET output == stdout[1]
        resultLines == {i \in 1..Len(output) : output[i] \in {LineResultA, LineResultB}}
    IN resultLines # {} =>
         /\ settled[1] # Undefined
         /\ settled[1].status = "completed"
         /\ settled[1].result =
              JSONparse(output[CHOOSE i \in resultLines : \A k \in resultLines : k <= i])

\* C16: a task whose output holds no result line fails; its error is the raw
\* output (behind the prefix of processOutput) when the output contains
\* "Error:", and the no-result message otherwise.
C16_NoResultFailsWithDetail ==
  outputJson[1] # NoFile =>
    LET output == stdout[1]
    IN (\A i \in 1..Len(output) : output[i] \notin {LineResultA, LineResultB}) =>
         /\ settled[1] # Undefined
         /\ settled[1].status = "failed"
         /\ settled[1].error =
              IF IncludesErrorMarker(output)
              THEN Str("Claude execution error: " \o Join(output))
              ELSE Str("No result message found in Claude output")

\* C14: the effective prompt, the text written to prompt.txt, is the inline
\* prompt when one is supplied (also when a prompt file is named as well),
\* otherwise the contents of the named prompt file, otherwise the default
\* prompt of the category's template.
C14_InlineThenFileThenDefault ==
  promptTxt[1] # NoFile =>
    LET prompt == Prop(request[1], "prompt")
        promptFile == Prop(request[1], "promptFile")
    IN promptTxt[1].content =
         IF Truthy(prompt) THEN prompt.v
         ELSE IF Truthy(promptFile) THEN readFile(promptFile.v)
         ELSE TemplateDefaultPrompt(request[1].taskType.v)

\* C17: a subprocess is spawned only with a prompt that is not empty or
\* whitespace.  A task all of whose prompt sources are absent, empty or
\* whitespace never has a subprocess, a prompt.txt or an output.json, and once
\* its working directory and repository are set up it fails with an
\* empty-prompt error.
C17_NoSpawnWithoutPrompt ==
  LET blank(s) == s \in {"", " "}
      r == request[1]
      prompt == Prop(r, "prompt")
      promptFile == Prop(r, "promptFile")
      allSourcesBlank ==
        /\ Truthy(prompt) => blank(prompt.v)
        /\ Truthy(promptFile) => existsSync(promptFile.v) /\ blank(readFile(promptFile.v))
        /\ blank(TemplateDefaultPrompt(r.taskType.v))
      contextReady ==
        taskDir[1] /\ requestJson[1] # NoFile /\
        (Truthy(Prop(r, "repoUrl")) => repoDir[1] # "none")
  IN /\ proc[1] # "none" => promptTxt[1] # NoFile /\ ~blank(promptTxt[1].content)
     /\ (r # Undefined /\ allSourcesBlank) =>
          /\ proc[1] = "none" /\ promptTxt[1] = NoFile /\ outputJson[1] = NoFile
          /\ (pc[1] = "settled" /\ contextReady) =>
               /\ settled[1].status = "failed"
               /\ settled[1].error \in
                    {Str("Prompt is empty. Please provide a non-empty prompt."),
                     Str("Prompt file is empty")}

\* a task with a whitespace prompt that failed before any subprocess was spawned
C17_WhitespacePromptFailed ==
  /\ pc[1] = "settled"
  /\ Prop(request[1], "prompt") = Str(" ")
  /\ Prop(request[1], "promptFile") = Undefined
  /\ settled[1].error = Str("Prompt is empty. Please provide a non-empty prompt.")
  /\ proc[1] = "none" /\ promptTxt[1] = NoFile /\ outputJson[1] = NoFile

\* C20: request.json is written before anything else of the execution.  When
\* the repository is being set up or has been downloaded, when the prompt has
\* been prepared or written, and when a subprocess has been spawned,
\* request.json is already in the task directory, and it holds the request
\* with allowedTools and maxTurns resolved.
C20_RequestIsPersistedFirst ==
  LET afterRequest ==
        \/ pc[1] \in {"createBranch", "downloadHotfix", "downloadMain", "savePrompt",
                      "running", "saveOutput"}
        \/ repoDir[1] # "none"
        \/ promptTxt[1] # NoFile
        \/ proc[1] # "none"
        \/ outputJson[1] # NoFile
  IN afterRequest =>
       /\ requestJson[1] # NoFile
       /\ requestJson[1].content.taskType = request[1].taskType
       /\ Truthy(Prop(requestJson[1].content, "allowedTools"))
       /\ Truthy(Prop(requestJson[1].content, "maxTurns"))
       /\ requestJson[1].birthtime <= now

\* a subprocess running in a downloaded repository for a request that left
\* allowedTools and maxTurns to the code-review template
C20_SpawnedAfterRequestSaved ==
  /\ proc[1] = "running"
  /\ repoDir[1] = "hotfix"
  /\ requestJson[1] # NoFile
  /\ requestJson[1].content.taskType = Str("code-review")
  /\ requestJson[1].content.maxTurns = Num(15)
  /\ requestJson[1].content.allowedTools = Str("Read,Grep,Edit,Write,Bash")

\* C18: every failure of a task ends in its terminal response.  No response
\* ever carries code 500; a settled task has status completed or failed; a
\* failed task carries the message of the step that failed: the creation of
\* the working directory, the repository setup, the preparation of the
\* prompt, the timeout, the exit of the subprocess, the interpretation of the
\* output.
C18_FailuresAreCapturedInTheResponse ==
  /\ lastResponse.op # "none" => lastResponse.code # 500
  /\ pc[1] = "settled" =>
       /\ settled[1] # Undefined
       /\ settled[1].status \in {"completed", "failed"}
       /\ settled[1].status = "failed" =>
            settled[1].error \in
              (IF ~taskDir[1]
               THEN {Str("EACCES: permission denied, mkdir")}
               ELSE IF Truthy(Prop(request[1], "repoUrl")) /\ repoDir[1] = "none"
               THEN {Str("Failed to setup repository: Failed to download repo: 404 Not Found")}
               ELSE IF promptTxt[1] = NoFile
               THEN {Str("Prompt is empty. Please provide a non-empty prompt."),
                     Str("Prompt file is empty"),
                     Str("Prompt file 'missing.txt' does not exist")}
               ELSE IF timer[1] = "fired"
               THEN {Str("Claude execution timed out after 300 seconds")}
               ELSE IF outputJson[1] = NoFile
               THEN {Str("Claude execution failed: claude: not logged in"),
                     Str("Claude execution failed: Claude process exited with code 1"),
                     Str("Claude execution failed: Claude process exited with code 2")}
               ELSE {IF IncludesErrorMarker(stdout[1])
                     THEN Str("Claude execution error: " \o Join(stdout[1]))
                     ELSE Str("No result message found in Claude output")})

\* a GET that awaited a task whose repository could not be downloaded and was
\* answered 200 with the failed response
C18_WaitingGetAnsweredWithFailure ==
  /\ lastResponse.op = "GET" /\ lastResponse.code = 200
  /\ lastResponse.body.status = "failed"
  /\ lastResponse.body.error =
       Str("Failed to setup repository: Failed to download repo: 404 Not Found")
  /\ lastResponse.body = settled[1]

\* C19 as stated: every schema-valid POST /tasks received while fewer tasks
\* than the ceiling are in flight is answered 202 with a task id never handed
\* out before and status pending, while the execution has only been started.
C19_ValidSubmissionBelowCeilingIsAccepted ==
  [][ (/\ lastResponse' # lastResponse
       /\ \E client \in Clients, key \in SentKeys, req \in Requests :
            HttpSubmitTask(client, key, req)
       /\ Cardinality(runningTasks) < maxConcurrentTasks) =>
        /\ lastResponse'.code = 202
        /\ lastResponse'.body.status = "pending"
        /\ lastResponse'.taskId \notin 1..nextId
        /\ pc'[lastResponse'.taskId] = "mkdir"
        /\ settled'[lastResponse'.taskId] = Undefined ]_vars

\* C19, amended: a schema-valid POST /tasks that the authentication and
\* rate-limit middleware let through (the rate limiter has counted it),
\* received while fewer tasks than the ceiling are in flight, is answered 202
\* with a task id never handed out before and status pending, while the
\* execution has only been started.
C19_PassedSubmissionBelowCeilingIsAccepted ==
  [][ (/\ lastResponse' # lastResponse
       /\ \E client \in Clients, key \in SentKeys, req \in Requests :
            HttpSubmitTask(client, key, req)
       /\ rateLimitStore' # rateLimitStore
       /\ Cardinality(runningTasks) < maxConcurrentTasks) =>
        /\ lastResponse'.code = 202
        /\ lastResponse'.body.status = "pending"
        /\ lastResponse'.taskId \notin 1..nextId
        /\ pc'[lastResponse'.taskId] = "mkdir"
        /\ settled'[lastResponse'.taskId] = Undefined ]_vars

\* the second task of a run was accepted with 202 and has failed since
C19_AcceptedTaskFailedLater ==
  /\ lastResponse.op = "POST" /\ lastResponse.code = 202
  /\ lastResponse.taskId = 2
  /\ lastResponse.body.status = "pending"
  /\ settled[2] # Undefined
  /\ settled[2].status = "failed"
  /\ \E client \in Clients : rateLimitStore[client] # Undefined

\* C21: whenever processOutput has interpreted an output, whether it found a
\* result or not, output.json holds the full raw text it was given; and
\* output.json, once written, is never removed or changed.
C21_RawOutputIsSavedBeforeInterpretation ==
  [][ \A t \in TaskIds :
        /\ (pc[t] = "saveOutput" /\ pc'[t] = "settled") =>
              outputJson'[t] = File(stdout[t], now)
        /\ outputJson[t] # NoFile => outputJson'[t] = outputJson[t] ]_vars

\* an interpretation that found no result, with the raw text on disk
C21_FailedInterpretationLeftTheFile ==
  /\ pc[1] = "settled"
  /\ settled[1].status = "failed"
  /\ settled[1].error = Str("Claude execution error: " \o LineError)
  /\ outputJson[1] # NoFile
  /\ outputJson[1].content = <<LineError>>

\* C22: no retry, one timeout race per task.  A subprocess is spawned only
\* for a task that never had one, the timer is armed in the very step that
\* spawns it and in no other, and a settled task stays settled with the same
\* response: its subprocess may still exit, but nothing is spawned or armed
\* for it again.
C22_OneSpawnOneTimerNoRetry ==
  [][ \A t \in TaskIds :
        /\ (proc'[t] = "running" /\ proc[t] # "running") =>
              proc[t] = "none" /\ timer[t] = "none" /\ timer'[t] = "armed"
        /\ (timer'[t] = "armed" /\ timer[t] # "armed") =>
              proc[t] = "none" /\ proc'[t] = "running"
        /\ pc[t] = "settled" =>
              /\ pc'[t] = "settled"
              /\ settled'[t] = settled[t]
              /\ timer'[t] = timer[t]
              /\ proc'[t] # proc[t] => proc'[t] = "exited" ]_vars

\* a task that timed out, whose signalled subprocess has exited since
C22_TimedOutAndExited ==
  /\ pc[1] = "settled"
  /\ timer[1] = "fired"
  /\ proc[1] = "exited"
  /\ settled[1].status = "failed"

\* C23: when createExecutionContext resolves the defaults, allowedTools and
\* maxTurns each keep the value the request supplied, and take the value of
\* the category's template when the request left the property out.
C23_SuppliedLimitsAreKept ==
  [][ (pc[1] = "mkdir" /\ pc'[1] = "saveRequest") =>
        LET supplied == request[1]
            resolved == request'[1]
            taskType == supplied.taskType.v
        IN /\ resolved.allowedTools =
                IF Prop(supplied, "allowedTools") # Undefined THEN supplied.allowedTools
                ELSE Str(TemplateAllowedTools(taskType))
           /\ resolved.maxTurns =
                IF Prop(supplied, "maxTurns") # Undefined THEN supplied.maxTurns
                ELSE Num(TemplateMaxTurns(taskType)) ]_vars

\* C24 as stated: for a task with a repoUrl the subprocess is spawned if and
\* only if the download succeeds.  No subprocess exists without a downloaded
\* repository; a task whose repository was downloaded does not settle without
\* having spawned; a task that settles without a downloaded repository, its
\* working directory made, failed with the download error and has no subprocess.
C24_SpawnedIffRepositoryDownloaded ==
  (request[1] # Undefined /\ Truthy(Prop(request[1], "repoUrl"))) =>
    /\ proc[1] # "none" => repoDir[1] # "none"
    /\ (pc[1] = "settled" /\ repoDir[1] # "none") => proc[1] # "none"
    /\ (pc[1] = "settled" /\ repoDir[1] = "none" /\ taskDir[1]) =>
         /\ proc[1] = "none"
         /\ settled[1].status = "failed"
         /\ settled[1].error =
              Str("Failed to setup repository: Failed to download repo: 404 Not Found")

\* C24, amended: for a task with a repoUrl the subprocess is spawned only if
\* the download succeeds, and after a successful download only a failure of
\* the prompt preparation keeps it from being spawned.  A failure to create
\* the branch alone never fails the task; a task that settles without a
\* downloaded repository, its working directory made, failed with the
\* download error and has no subprocess.
C24_SpawnedOnlyAfterDownload ==
  (request[1] # Undefined /\ Truthy(Prop(request[1], "repoUrl"))) =>
    /\ proc[1] # "none" => repoDir[1] # "none"
    /\ (pc[1] = "settled" /\ repoDir[1] # "none" /\ proc[1] = "none") =>
         /\ settled[1].status = "failed"
         /\ settled[1].error \in
              {Str("Prompt is empty. Please provide a non-empty prompt."),
               Str("Prompt file is empty"),
               Str("Prompt file 'missing.txt' does not exist")}
    /\ (pc[1] = "settled" /\ repoDir[1] = "none" /\ taskDir[1]) =>
         /\ proc[1] = "none"
         /\ settled[1].status = "failed"
         /\ settled[1].error =
              Str("Failed to setup repository: Failed to download repo: 404 Not Found")

\* the branch could not be created, main was downloaded and the agent runs in it
C24_RunningOnMainAfterBranchFailure ==
  /\ repoDir[1] = "main"
  /\ proc[1] = "running"
  /\ pc[1] = "running"

\* C25: when the subprocess of a running execution closes with a non-zero
\* exit code the task fails; its error holds the captured standard error when
\* there is any, and the message that names the exit code otherwise.
C25_NonZeroExitFailsWithStderr ==
  [][ \A code \in {Num(1), Num(2)}, output \in ServerOutputs, errorOutput \in StderrTexts :
        (pc[1] = "running" /\ ProcessCloses(1, code, output, errorOutput)) =>
          /\ pc'[1] = "settled"
          /\ settled'[1].status = "failed"
          /\ settled'[1].error =
               IF errorOutput # ""
               THEN Str("Claude execution failed: " \o errorOutput)
               ELSE IF code = Num(1)
               THEN Str("Claude execution failed: Claude process exited with code 1")
               ELSE Str("Claude execution failed: Claude process exited with code 2") ]_vars

\* a task failed by exit code 2 that printed nothing on standard error
C25_FailedNamingExitCode ==
  /\ pc[1] = "settled"
  /\ proc[1] = "exited"
  /\ timer[1] = "cleared"
  /\ settled[1].error = Str("Claude execution failed: Claude process exited with code 2")

\* C26: when the child process of a running execution emits error, the task
\* settles as failed in that very step and leaves the in-flight map, and its
\* timeout timer is cleared; a cleared timer stays cleared, so the timeout
\* never fires for that task afterwards.
C26_LaunchFailureSettlesAtOnce ==
  [][ /\ ProcessErrors(1) =>
           /\ pc'[1] = "settled"
           /\ settled'[1] # Undefined
           /\ settled'[1].status = "failed"
           /\ 1 \notin runningTasks'
           /\ timer'[1] = "cleared"
      /\ \A t \in TaskIds : timer[t] = "cleared" => timer'[t] = "cleared" ]_vars

\* a task that failed on the error event while a GET was waiting for it
C26_FailedOnLaunchError ==
  /\ pc[1] = "settled"
  /\ proc[1] = "exited"
  /\ timer[1] = "cleared"
  /\ outputJson[1] = NoFile
  /\ settled[1].error = Str("Claude execution failed: Claude process exited with code 1")
  /\ lastResponse = Response("GET", 1, 200, settled[1])

\* C27: a POST /tasks whose body is not JSON or violates the request schema,
\* and which has passed the middleware, is answered 400 and has no effect: no
\* task id is allocated, no in-flight entry added, no working directory
\* created, no subprocess spawned; this also holds when the in-flight map is
\* at its ceiling (validation comes before the admission check).
C27_InvalidBodyIsAnswered400 ==
  [][\A client \in Clients, key \in SentKeys, body \in Bodies :
       (/\ body = MalformedBody \/ ~TaskRequestSchema(body)
        /\ Authenticated(key)
        /\ ~RateLimited(client)
        /\ HttpPostTasks(client, key, body))
       => (/\ lastResponse'.code = 400
           /\ UNCHANGED <<nextId, runningTasks, exec, disk, settled, waiting>>)]_vars

\* a request of the client reaches a route handler in this step: the rate
\* limiter has counted it
ReachesHandler(client) == rateLimitStore'[client] # rateLimitStore[client]

\* the client's window is open: it has an entry whose resetTime has not passed
WindowOpen(client) ==
  /\ rateLimitStore[client] # Undefined
  /\ ~(now > rateLimitStore[client].resetTime)

\* C28: for every client key and every configured rateLimitPerMinute, the
\* count of a client's entry is the number of its requests that reached a
\* route handler in the client's current window of 60 seconds (it starts at 1
\* with the window and grows by one with every such request), that number
\* never exceeds rateLimitPerMinute, and a request of any route that arrives
\* in an open window whose count has reached the limit is answered 429
\* RATE_LIMIT_EXCEEDED and reaches no handler.
C28_AtMostLimitPerWindow ==
  /\ [](\A client \in Clients :
          rateLimitStore[client] # Undefined
            => rateLimitStore[client].count <= config.rateLimitPerMinute)
  /\ [][\A client \in Clients :
          /\ ReachesHandler(client)
               => IF WindowOpen(client)
                  THEN /\ rateLimitStore'[client].count = rateLimitStore[client].count + 1
                       /\ rateLimitStore'[client].resetTime = rateLimitStore[client].resetTime
                  ELSE rateLimitStore'[client] = [count |-> 1, resetTime |-> now + windowMs]
          /\ \A key \in SentKeys, isHealthy \in BOOLEAN, t \in TaskIds :
               (/\ Authenticated(key)
                /\ WindowOpen(client)
                /\ rateLimitStore[client].count >= config.rateLimitPerMinute
                /\ \/ HttpHealth(client, key, isHealthy)
                   \/ HttpGetTask(client, key, t)
                   \/ HttpCancelTask(client, key, t)
                   \/ \E body \in Bodies : HttpPostTasks(client, key, body))
               => (/\ lastResponse'.code = 429
                   /\ lastResponse'.body = ApiError("RATE_LIMIT_EXCEEDED")
                   /\ UNCHANGED <<nextId, runningTasks, exec, disk, settled, waiting,
                                  rateLimitStore>>)]_vars

\* the request presents the configured apiKey through `Authorization: Bearer
\* <key>` (the key alone in that header is counted as well) or through
\* `X-API-Key`
PresentsApiKey(authorization, xApiKey) ==
  \/ authorization = Str("Bearer test-api-key")
  \/ authorization = Str(apiKey)
  \/ xApiKey = Str(apiKey)

\* C29: with enableAuth true, a request of any route (/health included) that
\* does not present the configured apiKey through `Authorization: Bearer <key>`
\* or `X-API-Key` is answered 401 UNAUTHORIZED and no handler runs for it, and
\* a request that presents the configured key is processed normally: it is
\* not answered 401 and goes on to the rate limiter and its handler.
C29_HandlersOnlyBehindTheApiKey ==
  [][\A client \in Clients, authorization \in AuthorizationHeaders, xApiKey \in XApiKeyHeaders :
       LET key == PresentedKey(authorization, xApiKey)
       IN (\/ \E isHealthy \in BOOLEAN : HttpHealth(client, key, isHealthy)
           \/ \E body \in Bodies : HttpPostTasks(client, key, body)
           \/ \E t \in TaskIds : HttpGetTask(client, key, t)
           \/ \E t \in TaskIds : HttpCancelTask(client, key, t))
          => IF PresentsApiKey(authorization, xApiKey)
             THEN ~(lastResponse' # lastResponse /\ lastResponse'.code = 401)
             ELSE /\ lastResponse'.code = 401
                  /\ lastResponse'.body = ApiError("UNAUTHORIZED")
                  /\ UNCHANGED <<nextId, runningTasks, exec, disk, settled, waiting,
                                 rateLimitStore>>]_vars

\* the failure executeTask returns for task t when the timeout wins the race
TimedOut(t) ==
  /\ settled[t] # Undefined
  /\ settled[t].status = "failed"
  /\ settled[t].error =
       Str("Claude execution timed out after " \o
           ToString(request[t].timeoutSeconds.v) \o " seconds")

\* C30: the timeout race is decided by its first event.  When the subprocess
\* closes or errors first, the timer is cleared in that step, and from then on
\* it never fires, the process is never signalled and the task never fails by
\* timeout.  When the timer fires first, the task is failed by timeout and
\* stays so: the close event that follows changes neither the response nor the
\* position of the task.  A task's response, once set, is never replaced.
C30_RaceDecidedByFirstEvent ==
  /\ [](\A t \in TaskIds :
          /\ timer[t] = "cleared" => proc[t] = "exited" /\ ~TimedOut(t)
          /\ timer[t] = "fired" => pc[t] = "settled" /\ TimedOut(t))
  /\ [][\A t \in TaskIds :
          /\ (proc[t] = "running" /\ proc'[t] = "exited") => timer'[t] = "cleared"
          /\ timer[t] = "cleared" => timer'[t] = "cleared" /\ proc'[t] = "exited"
          /\ timer[t] = "fired" => timer'[t] = "fired" /\ pc'[t] = "settled"
          /\ settled[t] # Undefined => settled'[t] = settled[t]]_vars

\* the timer fired first and the close event of the signalled process came
\* afterwards: the task is still the one failed by timeout, with no output.json
C30_ClosedAfterTheTimeout ==
  /\ timer[1] = "fired"
  /\ proc[1] = "exited"
  /\ TimedOut(1)
  /\ outputJson[1] = NoFile
  /\ 1 \notin runningTasks

\* C31: under fair scheduling of timers and callbacks, a task whose subprocess
\* was spawned eventually settles and is eventually out of the in-flight map,
\* also when the subprocess never exits; the slot it took is released.
C31_SpawnedTaskEventuallySettles ==
  (proc[1] = "running") ~>
     (/\ pc[1] = "settled"
      /\ 1 \notin runningTasks
      /\ Cardinality(runningTasks) < maxConcurrentTasks)

\* the task has settled and left the map while its signalled subprocess has
\* still not exited
C31_SettledWhileProcessStillThere ==
  /\ pc[1] = "settled"
  /\ proc[1] = "signalled"
  /\ timer[1] = "fired"
  /\ runningTasks = {}

\* the tasks whose agent subprocess has been spawned and has not exited
LiveSubprocesses == {t \in TaskIds : proc[t] \in {"running", "signalled"}}

\* C32 as stated: at every moment at most maxConcurrentTasks agent
\* subprocesses have been spawned and have not yet exited.
C32_LiveSubprocessesWithinCeiling ==
  Cardinality(LiveSubprocesses) <= maxConcurrentTasks

\* C32, amended: at every moment at most maxConcurrentTasks of the live
\* subprocesses belong to tasks of the in-flight map; the subprocess of a
\* task that was cancelled or timed out can live on beside them.
C32_LiveSubprocessesInFlightWithinCeiling ==
  Cardinality(LiveSubprocesses \cap runningTasks) <= maxConcurrentTasks

\* the subprocess of the cancelled first task and that of the second task,
\* admitted into the freed slot, run at the same time
C32_CancelledSubprocessBesideItsSuccessor ==
  /\ proc[1] = "running"
  /\ 1 \notin runningTasks
  /\ pc[1] = "running"
  /\ proc[2] = "running"
  /\ 2 \in runningTasks

\* C33: in both servers, for every id T returned by POST /tasks the working
\* directory of the task's execution is keyed by T, the response the task
\* settles with has taskId T, and every Task Response sent for T, by the POST
\* and by a GET from memory or from disk, has taskId T.
C33_TaskIdentityEndToEnd ==
  /\ \A t \in TaskIds :
       /\ taskDir[t] => ExecutorTaskId(t) = t
       /\ settled[t] # Undefined => settled[t].taskId = t
  /\ (lastResponse.op \in {"POST", "GET"} /\ lastResponse.code \in {200, 202})
       => lastResponse.body.taskId = lastResponse.taskId

\* C34: a task completes only after its subprocess exited with code 0.  A
\* close event that reports a signal (code null) or a code other than 0 never
\* sends the task on to the interpretation of an output that holds a result,
\* and a launch error fails the task, whatever was written to standard output.
C34_CompletedOnlyAfterExitCodeZero ==
  [][ /\ \A code \in ContextExitCodes \ {Num(0)}, output \in ServerOutputs,
           errorOutput \in StderrTexts :
           (pc[1] = "running" /\ ProcessCloses(1, code, output, errorOutput))
             => ~(pc'[1] = "saveOutput" /\ processOutput(stdout'[1]).ok)
      /\ ProcessErrors(1) => (pc'[1] = "settled" /\ settled'[1].status = "failed") ]_vars

\* the last line of an output that decodes to an object whose type is result
\* (Undefined when the output has none)
LastResultOf(output) ==
  LET resultLines == {i \in 1..Len(output) :
                        /\ JSONparse(output[i]) \notin {ParseFailure, Null}
                        /\ Prop(JSONparse(output[i]), "type") = "result"}
  IN IF resultLines = {} THEN Undefined
     ELSE JSONparse(output[CHOOSE i \in resultLines : \A k \in resultLines : k <= i])

\* C35: for every captured output with at least one line that decodes to a
\* result-tagged object, processOutput returns the last such object, and
\* getTaskResult on the persisted output reports the task completed with the
\* result of that object, whatever the other lines are (text that is not
\* JSON, or JSON that is not an object, such as null).
C35_LastResultObjectIsFound ==
  /\ LastResultOf(stdout[1]) # Undefined
       => processOutput(stdout[1]) = Returned(LastResultOf(stdout[1]))
  /\ (outputJson[1] # NoFile /\ LastResultOf(outputJson[1].content) # Undefined)
       => /\ Reconstructed(1).status = "completed"
          /\ Reconstructed(1).result = Prop(LastResultOf(outputJson[1].content), "result")

\* C36: in the development server a task that DELETE removed is gone for
\* good.  Ids are never handed out twice, so an id enters the tasks map only
\* in the POST that allocates it; an id that was handed out and is absent
\* from the map stays absent, also when its execution finishes, and a GET
\* for it answers 404.
C36_CancelledTaskNeverReappears ==
  [][\A t \in TaskIds :
       /\ (tasks[t] = Undefined /\ tasks'[t] # Undefined)
            => (t \notin 1..nextId /\ nextId' = t)
       /\ (t \in 1..nextId /\ tasks[t] = Undefined /\ DevGetTask(t))
            => lastResponse'.code = 404]_vars

\* C37: a POST /tasks that is answered 429 CONCURRENT_LIMIT_REACHED leaves
\* the system as it was: no task id is allocated, the in-flight index keeps
\* its entries, no working directory and no file is created, no subprocess
\* is spawned and no execution is advanced.
C37_RejectedSubmissionChangesNothing ==
  [][\A req \in Requests :
       (/\ SubmitTask(req)
        /\ lastResponse'.code = 429
        /\ lastResponse'.body.code = "CONCURRENT_LIMIT_REACHED")
       => (/\ nextId' = nextId
           /\ runningTasks' = runningTasks
           /\ taskDir' = taskDir
           /\ requestJson' = requestJson
           /\ proc' = proc
           /\ UNCHANGED <<now, pc, request, startTime, stdout, timer, promptTxt, outputJson,
                          repoDir, settled, waiting, tasks>>)]_vars

\* C37 witness: the second submission was rejected while the first task is in
\* flight; the second id is still unused
C37_RejectedBesideTaskInFlight ==
  /\ lastResponse.op = "POST"
  /\ lastResponse.code = 429
  /\ lastResponse.body.code = "CONCURRENT_LIMIT_REACHED"
  /\ nextId = 1
  /\ runningTasks = {1}
  /\ pc[2] = "unused"
  /\ ~taskDir[2]

\* the client's window is over: it has an entry and Date.now() is greater than
\* the entry's resetTime
WindowOver(client) ==
  /\ rateLimitStore[client] # Undefined
  /\ now > rateLimitStore[client].resetTime

\* C38: a rate-limited client is served again.  For every client key, a
\* request that comes to the rate limiter after the resetTime of the client's
\* window has passed is not refused by the rate limiter (whatever the count
\* was and whatever the limit is), goes on to its handler and starts a new window of 60 seconds with count 1;
\* while a window is open and full no request changes its entry, and a
\* request answered 429 RATE_LIMIT_EXCEEDED neither increments a counter nor
\* extends a window.
C38_ServedAgainAfterTheWindow ==
  [][\A client \in Clients :
       /\ WindowOver(client) => ~RateLimited(client)
       /\ (WindowOver(client) /\ ReachesHandler(client))
            => /\ rateLimitStore'[client].count = 1
               /\ rateLimitStore'[client].resetTime = now + 60000
               /\ \A key \in SentKeys :
                    Authenticated(key)
                      => /\ \A isHealthy \in BOOLEAN :
                              HttpHealth(client, key, isHealthy) => Health(isHealthy)
                         /\ \A body \in Bodies :
                              HttpPostTasks(client, key, body) => PostTasks(body)
                         /\ \A t \in TaskIds :
                              /\ HttpGetTask(client, key, t) => GetTask(t)
                              /\ HttpCancelTask(client, key, t) => CancelTask(t)
       /\ (WindowOpen(client) /\ rateLimitStore[client].count >= config.rateLimitPerMinute)
            => (/\ rateLimitStore'[client].count = rateLimitStore[client].count
                /\ rateLimitStore'[client].resetTime = rateLimitStore[client].resetTime)
       /\ (/\ lastResponse' # lastResponse
           /\ lastResponse'.code = 429
           /\ lastResponse'.body = ApiError("RATE_LIMIT_EXCEEDED"))
            => rateLimitStore' = rateLimitStore]_vars

\* C38 witness: more than a window's length after the start, a client whose
\* window began at the present millisecond with count 1 has been answered 429:
\* the count is still 1 and the window still ends 60 seconds after it began
C38_RefusedInARenewedWindow ==
  /\ now > windowMs
  /\ lastResponse.op # "none"
  /\ lastResponse.code = 429
  /\ lastResponse.body = ApiError("RATE_LIMIT_EXCEEDED")
  /\ \E client \in Clients :
       rateLimitStore[client] = [count |-> 1, resetTime |-> now + windowMs]

RECURSIVE Concatenated(_)
Concatenated(batches) ==
  IF batches = <<>> THEN <<>> ELSE Head(batches) \o Concatenated(Tail(batches))

\* the paths the GitHub service has received through pushChanges, in the
\* order of their arrival
PushedPaths ==
  LET files == Concatenated([k \in 1..Len(git.github.pushes) |-> git.github.pushes[k].files])
  IN [k \in 1..Len(files) |-> files[k].path]

\* the delta entries: additions, then modifications, then deletions
DeltaEntries == git.deltas.additions \o git.deltas.modifications \o git.deltas.deletions

\* C39: setupGitAndPush pushes the delta entries (additions, then
\* modifications, then deletions) in consecutive batches of at most 50.  The
\* paths pushed so far are always the first delta entries in list order, no
\* batch has more than 50 files, a call that completes has pushed every delta
\* entry exactly once, and a pull request exists only when every entry has
\* been pushed and there is at least one entry.
C39_EveryDeltaEntryPushedOnceInOrder ==
  /\ \A k \in 1..Len(git.github.pushes) : Len(git.github.pushes[k].files) \in 1..BATCH_SIZE
  /\ Len(PushedPaths) <= Len(DeltaEntries)
  /\ \A k \in 1..Len(PushedPaths) : PushedPaths[k] = DeltaEntries[k]
  /\ git.pc = "completed" => Len(PushedPaths) = Len(DeltaEntries)
  /\ Len(git.github.pullRequests) > 0
       => (Len(PushedPaths) = Len(DeltaEntries) /\ Len(DeltaEntries) >= 1)

\* C40: the parent branch of every pushed batch.  Without a feature branch
\* the batches go to the generated target branch, the first with parent
\* 'main' and every later one with the target branch as parent; with a
\* feature branch every batch, the first included, goes to that branch with
\* that branch as parent, and createBranch is never called.
C40_ParentBranchOfEveryBatch ==
  /\ \A k \in 1..Len(git.github.pushes) :
       LET push == git.github.pushes[k]
       IN IF Truthy(git.providedBranch)
          THEN /\ push.branch = git.providedBranch.v
               /\ push.parentBranch = git.providedBranch.v
          ELSE /\ push.branch = GeneratedBranch
               /\ push.parentBranch = IF k = 1 THEN "main" ELSE GeneratedBranch
  /\ Truthy(git.providedBranch) => git.github.branches = {}
  /\ \A branch \in git.github.branches : branch = [name |-> GeneratedBranch, from |-> "main"]

\* C40 witness: no feature branch was given, the target branch was created
\* and two batches have been pushed, the first on 'main', the second on the
\* target branch
C40_SecondBatchOnTheNewBranch ==
  /\ ~Truthy(git.providedBranch)
  /\ git.github.branches # {}
  /\ Len(git.github.pushes) >= 2
  /\ git.github.pushes[1].parentBranch = "main"
  /\ git.github.pushes[2].parentBranch = GeneratedBranch

====
